---- MODULE Spec2Model ----
(***************************************************************************)
(* Route generation batch of the travel journal                            *)
(* (scripts/generate-routes.js): entry loading, location reference         *)
(* resolution, route fetching with the curved fallback, polyline encoding  *)
(* and the per-date route file cache.                                      *)
(*                                                                         *)
(* Representation.                                                         *)
(*  - A string the code inspects character by character (a from/to         *)
(*    reference, a location name, a label, a raw frontmatter number) is a  *)
(*    sequence of characters, the empty sequence being the empty string.   *)
(*    A character is a one-character string, or the name "U+hhhh" of its   *)
(*    code point where a string of TLA+ cannot hold it.  An absent         *)
(*    (undefined) name is NoName, which is no string.                      *)
(*  - A number (a latitude, a longitude) is a record: NaN, an infinity or  *)
(*    a decimal.  The curve is computed between places of whole degrees.   *)
(*  - A point of a path is a pair <<lng, lat>> counted in 1/PathScale of a *)
(*    degree, which is exact for the 21 samples of the quadratic Bezier.   *)
(*  - An encoded polyline is the sequence of its character codes.          *)
(*  - Entries are indexed from 0 as in the code; allEntries[i] of the code *)
(*    is allEntries[i + 1] here.                                           *)
(***************************************************************************)
EXTENDS Integers, Sequences, FiniteSets, TLC

----------------------------------------------------------------------------
(* Characters and numerals *)

Digits == {"0", "1", "2", "3", "4", "5", "6", "7", "8", "9"}

\* The \s class of the coordinate pattern, which is also the white space
\* parseFloat drops: tab, line feed, vertical tab, form feed, carriage
\* return, space, no-break space, the space separators of Unicode, the line
\* and paragraph separators and the byte order mark.
Whitespace ==
  { " ", "\t", "\n", "\r", "\f", "U+000B", "U+00A0", "U+1680", "U+2000",
    "U+2001", "U+2002", "U+2003", "U+2004", "U+2005", "U+2006", "U+2007",
    "U+2008", "U+2009", "U+200A", "U+2028", "U+2029", "U+202F", "U+205F",
    "U+3000", "U+FEFF" }

\* undefined in the place of a string: the name of a location that has none
NoName == << "undefined" >>

DigitValue(c) ==
  CASE c = "0" -> 0 [] c = "1" -> 1 [] c = "2" -> 2 [] c = "3" -> 3
    [] c = "4" -> 4 [] c = "5" -> 5 [] c = "6" -> 6 [] c = "7" -> 7
    [] c = "8" -> 8 [] c = "9" -> 9

DigitChar(d) ==
  CASE d = 0 -> "0" [] d = 1 -> "1" [] d = 2 -> "2" [] d = 3 -> "3"
    [] d = 4 -> "4" [] d = 5 -> "5" [] d = 6 -> "6" [] d = 7 -> "7"
    [] d = 8 -> "8" [] d = 9 -> "9"

AllDigits(s) == \A k \in 1..Len(s) : s[k] \in Digits

\* index of the first occurrence of character c in s, 0 when there is none
IndexOf(s, c) ==
  IF \E k \in 1..Len(s) : s[k] = c
    THEN CHOOSE k \in 1..Len(s) : s[k] = c /\ \A m \in 1..(k - 1) : s[m] # c
    ELSE 0

Drop(s, n) == SubSeq(s, n + 1, Len(s))

Take(s, n) == SubSeq(s, 1, n)

\* s without its leading whitespace (the \s* of the pattern)
RECURSIVE SkipWhitespace(_)
SkipWhitespace(s) ==
  IF Len(s) > 0 /\ s[1] \in Whitespace THEN SkipWhitespace(Tail(s)) ELSE s

Unsigned(s) == IF Len(s) > 0 /\ s[1] = "-" THEN Tail(s) ELSE s

\* s matches -?\d+\.?\d* as a whole
IsNumeral(s) ==
  LET u == Unsigned(s)
      dot == IndexOf(u, ".")
  IN  IF dot = 0
        THEN Len(u) >= 1 /\ AllDigits(u)
        ELSE /\ dot >= 2
             /\ AllDigits(Take(u, dot - 1))
             /\ AllDigits(Drop(u, dot))

RECURSIVE DecimalValue(_)
DecimalValue(s) ==
  IF Len(s) = 0 THEN 0
  ELSE 10 * DecimalValue(Take(s, Len(s) - 1)) + DigitValue(s[Len(s)])

\* Op of the value: a local variable assigned once and read many times
Assigned(value, Op(_)) == CHOOSE r \in { Op(x) : x \in { value } } : TRUE

\* A number of the program is a record: NaN, an infinity with its sign
\* (value 1 or -1), or the decimal value / 10^places, places being 0 for a
\* whole number and value not ending in 0 otherwise.  Two numerals of at
\* most MaxDigits digits read the same double exactly when they are the
\* same decimal, and the double prints as that decimal.
NaN == [nan |-> TRUE, inf |-> FALSE, value |-> 0, places |-> 0]

\* the whole number v
Finite(v) == [nan |-> FALSE, inf |-> FALSE, value |-> v, places |-> 0]

\* the number units / 10^places, units not ending in 0 and places > 0
Decimal(units, places) ==
  [nan |-> FALSE, inf |-> FALSE, value |-> units, places |-> places]

\* Infinity (sign 1) and -Infinity (sign -1)
Infinite(sign) == [nan |-> FALSE, inf |-> TRUE, value |-> sign, places |-> 0]

\* Number.isFinite: neither NaN nor an infinity
IsFiniteNumber(x) == ~x.nan /\ ~x.inf

\* x === y of two numbers: NaN equals nothing, itself included
StrictEquals(x, y) == ~x.nan /\ ~y.nan /\ x = y

\* The whole number of degrees x is.  The arithmetic of the model is on
\* whole numbers: a number with a fraction, NaN and the infinities have no
\* value here.
Degrees(x) == CASE IsFiniteNumber(x) /\ x.places = 0 -> x.value

\* The significant digits of the numerals the model reads: a double holds
\* every decimal of up to 15 digits apart from every other.
MaxDigits == 9

InfinityWord == << "I", "n", "f", "i", "n", "i", "t", "y" >>

\* the number of digits s starts with
RECURSIVE DigitRun(_)
DigitRun(s) ==
  IF Len(s) > 0 /\ s[1] \in Digits THEN 1 + DigitRun(Tail(s)) ELSE 0

\* the length of the exponent part s starts with: e or E, an optional sign
\* and at least one digit; 0 when s starts with none
ExponentLength(s) ==
  LET marked == Len(s) > 0 /\ s[1] \in {"e", "E"}
      signed == Len(s) > 1 /\ s[2] \in {"+", "-"}
      digits == DigitRun(Drop(s, IF signed THEN 2 ELSE 1))
  IN  IF marked /\ digits > 0
        THEN 1 + (IF signed THEN 1 ELSE 0) + digits
        ELSE 0

\* The longest prefix of s that reads as a decimal literal of parseFloat:
\* an optional sign, then the word Infinity, or digits with an optional '.'
\* and digits (at least one digit in all) and an optional exponent part.
\* Empty when s starts with no such literal.
NumericPrefix(s) ==
  LET signed == Len(s) > 0 /\ s[1] \in {"+", "-"}
      u == IF signed THEN Tail(s) ELSE s
      w == DigitRun(u)
      rest == Drop(u, w)
      hasDot == Len(rest) > 0 /\ rest[1] = "."
      f == IF hasDot THEN DigitRun(Tail(rest)) ELSE 0
      mantissa == IF w + f = 0 THEN 0
                  ELSE IF hasDot THEN w + 1 + f
                  ELSE w
      len == IF /\ Len(u) >= Len(InfinityWord)
                /\ Take(u, Len(InfinityWord)) = InfinityWord
               THEN Len(InfinityWord)
             ELSE IF mantissa = 0 THEN 0
             ELSE mantissa + ExponentLength(Drop(u, mantissa))
  IN  IF len = 0 THEN << >>
      ELSE Take(s, len + (IF signed THEN 1 ELSE 0))

\* the number of characters c that s starts with
RECURSIVE LeadingRun(_, _)
LeadingRun(s, c) ==
  IF Len(s) > 0 /\ s[1] = c THEN 1 + LeadingRun(Tail(s), c) ELSE 0

\* the number of zeros that s ends with
RECURSIVE TrailingZeros(_)
TrailingZeros(s) ==
  IF Len(s) > 0 /\ s[Len(s)] = "0"
    THEN 1 + TrailingZeros(Take(s, Len(s) - 1)) ELSE 0

\* the whole power n of ten
PowerOfTen(n) == DecimalValue(<< "1" >> \o [k \in 1..n |-> "0"])

\* The first 17 digits of 2^1024 - 2^970, a number of 309 digits: the least
\* number that rounds past the largest double, and so reads Infinity.
OverflowDigits ==
  << "1", "7", "9", "7", "6", "9", "3", "1", "3", "4", "8", "6", "2", "3",
     "1", "5", "8" >>

\* a is after b in the order of the numerals of one length
RECURSIVE DigitsAbove(_, _)
DigitsAbove(a, b) ==
  IF a = << >> THEN FALSE
  ELSE IF a[1] # b[1] THEN DigitValue(a[1]) > DigitValue(b[1])
  ELSE DigitsAbove(Tail(a), Tail(b))

\* The value of an unsigned literal of digits, '.' and exponent part, which
\* is not the word Infinity.  A literal of 10^309 or more, or one of 309
\* digits whose first 17 are after those of 2^1024 - 2^970, is past the
\* largest double and reads Infinity; one below 10^-324 is under half the
\* smallest double and reads 0.  Between the two the operator is defined
\* on the literals of at most MaxDigits significant digits that are below
\* 10^MaxDigits and not below 10^-MaxDigits.
LiteralValue(u) ==
  LET w == DigitRun(u)
      hasDot == Len(u) > w /\ u[w + 1] = "."
      f == IF hasDot THEN DigitRun(Drop(u, w + 1)) ELSE 0
      mantissa == IF hasDot THEN w + 1 + f ELSE w
      e == Drop(u, mantissa)
      exponent == IF e = << >> THEN 0
                  ELSE IF e[2] = "-" THEN -DecimalValue(Drop(e, 2))
                  ELSE IF e[2] = "+" THEN DecimalValue(Drop(e, 2))
                  ELSE DecimalValue(Tail(e))
      all == Take(u, w) \o SubSeq(u, w + 2, w + 1 + f)
      zeros == LeadingRun(all, "0")
      \* the digits from the first one that is not 0 to the last one that
      \* is not 0, and the power of ten of the last of them
      digits == SubSeq(all, zeros + 1, Len(all) - TrailingZeros(all))
      power == exponent - f + TrailingZeros(all)
      \* the literal is less than 10^order, and not less than 10^(order-1)
      order == Len(digits) + power
      \* the first digits of the literal, continued with zeros
      leading == [k \in 1..Len(OverflowDigits) |->
                    IF k <= Len(digits) THEN digits[k] ELSE "0"]
      overflows ==
        \/ order > 309
        \/ order = 309 /\ DigitsAbove(leading, OverflowDigits)
  IN  CASE zeros = Len(all) -> Finite(0)
        [] zeros < Len(all) /\ overflows -> Infinite(1)
        [] zeros < Len(all) /\ order < -323 -> Finite(0)
        [] /\ zeros < Len(all)
           /\ Len(digits) <= MaxDigits
           /\ order <= MaxDigits
           /\ order > -MaxDigits ->
             IF power >= 0
               THEN Finite(DecimalValue(digits) * PowerOfTen(power))
               ELSE Decimal(DecimalValue(digits), -power)

\* parseFloat(value): leading white space is dropped, the longest numeric
\* prefix is read, and there being none the result is NaN.  The empty
\* sequence stands for the empty string and for undefined alike: parseFloat
\* reads NaN of both.  -0 is the number 0.
parseFloat(s) ==
  Assigned(SkipWhitespace(s), LAMBDA trimmed :
    Assigned(NumericPrefix(trimmed), LAMBDA prefix :
      LET signed == Len(prefix) > 0 /\ prefix[1] \in {"+", "-"}
          sign == IF signed /\ prefix[1] = "-" THEN -1 ELSE 1
          u == IF signed THEN Tail(prefix) ELSE prefix
      IN  IF prefix = << >> THEN NaN
          ELSE IF u = InfinityWord THEN Infinite(sign)
          ELSE [LiteralValue(u) EXCEPT !.value = sign * @]))

RECURSIVE NaturalDigits(_)
NaturalDigits(n) ==
  IF n < 10 THEN << DigitChar(n) >>
  ELSE Append(NaturalDigits(n \div 10), DigitChar(n % 10))

\* the last n digits of the natural number v, with leading zeros
RECURSIVE FractionDigits(_, _)
FractionDigits(v, n) ==
  IF n = 0 THEN << >>
  ELSE Append(FractionDigits(v \div 10, n - 1), DigitChar(v % 10))

\* `${number}` of a template literal: NaN, Infinity, the digits of a whole
\* number, or whole part, '.' and fraction.  A number below 10^-6 prints
\* with an exponent and has no value here.
NumberToString(x) ==
  LET a == IF x.value < 0 THEN -x.value ELSE x.value
      minus == IF x.value < 0 THEN << "-" >> ELSE << >>
  IN  CASE x.nan -> << "N", "a", "N" >>
        [] x.inf -> minus \o InfinityWord
        [] IsFiniteNumber(x) /\ x.places = 0 -> minus \o NaturalDigits(a)
        [] IsFiniteNumber(x) /\ x.places \in 1..6 ->
             minus \o NaturalDigits(a \div PowerOfTen(x.places)) \o << "." >>
               \o FractionDigits(a, x.places)

\* startLoc.name || `${startLoc.lat}, ${startLoc.lng}`
LocationLabel(loc) ==
  IF loc.name # NoName /\ loc.name # << >> THEN loc.name
  ELSE NumberToString(loc.lat) \o << ",", " " >> \o NumberToString(loc.lng)

----------------------------------------------------------------------------
(* parseLocationRef *)

\* the match with the two groups taken in the other order
coordMatch_Swapped(ref) ==
  LET comma == IndexOf(ref, ",")
      g1 == Take(ref, comma - 1)
      g2 == SkipWhitespace(Drop(ref, comma))
  IN  IF comma # 0 /\ IsNumeral(g1) /\ IsNumeral(g2)
        THEN [matched |-> TRUE, lat |-> g2, lng |-> g1]
        ELSE [matched |-> FALSE, lat |-> << >>, lng |-> << >>]

\* ref.match(/^(-?\d+\.?\d*),\s*(-?\d+\.?\d*)$/): the two captured groups,
\* or matched = FALSE.  Neither group can hold a comma, so the first comma of
\* ref is the separator.
coordMatch(ref) ==
  LET comma == IndexOf(ref, ",")
      g1 == Take(ref, comma - 1)
      g2 == SkipWhitespace(Drop(ref, comma))
  IN  IF comma # 0 /\ IsNumeral(g1) /\ IsNumeral(g2)
        THEN [matched |-> TRUE, lat |-> g1, lng |-> g2]
        ELSE [matched |-> FALSE, lat |-> << >>, lng |-> << >>]

Keyword_current == << "c", "u", "r", "r", "e", "n", "t" >>

Keyword_previous == << "p", "r", "e", "v", "i", "o", "u", "s" >>

Resolved(loc) == [ok |-> TRUE, loc |-> loc]

\* throw new Error(`Could not resolve location reference: ...`)
Unresolved ==
  [ok |-> FALSE,
   loc |-> [lat |-> Finite(0), lng |-> Finite(0), name |-> NoName]]

\* pois.find(l => l.name === ref): index of the first match, 0 when none
FindPoi(pois, ref) ==
  IF \E k \in 1..Len(pois) : pois[k].name = ref
    THEN CHOOSE k \in 1..Len(pois) :
           pois[k].name = ref /\ \A m \in 1..(k - 1) : pois[m].name # ref
    ELSE 0

\* the match of one entry in the backward search: primary location first,
\* then the first point of interest of that name
EntryMatch(entry, ref) ==
  IF entry.location.name = ref THEN Resolved(entry.location)
  ELSE IF FindPoi(entry.pois, ref) # 0
    THEN Resolved(entry.pois[FindPoi(entry.pois, ref)])
    ELSE Unresolved

\* the search run from the first entry on
RECURSIVE SearchBackward_Forward(_, _, _)
SearchBackward_Forward(entries, k, ref) ==
  LET n == Len(entries) - k + 1
  IN  IF k = 0 THEN Unresolved
      ELSE IF EntryMatch(entries[n], ref).ok THEN EntryMatch(entries[n], ref)
      ELSE SearchBackward_Forward(entries, k - 1, ref)

\* for (let i = allEntries.length - 1; i >= 0; i--)
RECURSIVE SearchBackward(_, _, _)
SearchBackward(entries, k, ref) ==
  IF k = 0 THEN Unresolved
  ELSE IF EntryMatch(entries[k], ref).ok THEN EntryMatch(entries[k], ref)
  ELSE SearchBackward(entries, k - 1, ref)

\* previousEntry is the empty sequence for null, a one-element sequence
\* otherwise
parseLocationRef(ref, currentEntry, previousEntry, entries) ==
  LET m == coordMatch(ref)
  IN  IF m.matched
        THEN Resolved([lat |-> parseFloat(m.lat), lng |-> parseFloat(m.lng),
                       name |-> NoName])
      ELSE IF ref = Keyword_current \/ ref = currentEntry.location.name
        THEN Resolved(currentEntry.location)
      ELSE IF ref = Keyword_previous /\ previousEntry # << >>
        THEN Resolved(previousEntry[1].location)
      ELSE IF previousEntry # << >> /\ ref = previousEntry[1].location.name
        THEN Resolved(previousEntry[1].location)
      ELSE IF FindPoi(currentEntry.pois, ref) # 0
        THEN Resolved(currentEntry.pois[FindPoi(currentEntry.pois, ref)])
      ELSE SearchBackward(entries, Len(entries), ref)

\* the call with previousEntry taken one entry too far (allEntries[i])
ResolveCall_OffByOne(entries, k, ref) ==
  parseLocationRef(ref, entries[k + 1], << entries[k + 1] >>,
                   SubSeq(entries, 1, k + 1))

\* parseLocationRef(ref, entry, previousEntry, allEntries.slice(0, i + 1))
\* with entry and previousEntry as lines 222-223 set them
ResolveCall(entries, k, ref) ==
  parseLocationRef(ref, entries[k + 1],
                   IF k > 0 THEN << entries[k] >> ELSE << >>,
                   SubSeq(entries, 1, k + 1))

----------------------------------------------------------------------------
(* generateCurvedPath, fetchRoute *)

\* segments = 20, the default of generateCurvedPath
DefaultSegments == 20

\* smoothness = 0.2 = 1 / SmoothnessInverse
SmoothnessInverse == 5

\* path points are counted in 1/PathScale of a degree: the common
\* denominator of the samples of the default curve
PathScale == 2 * SmoothnessInverse * DefaultSegments * DefaultSegments

\* The point at parameter t / n of the quadratic Bezier from a to b with
\* control value (a + b) / 2 + offset * smoothness, in 1/PathScale.  Over
\* the common denominator 2 * SmoothnessInverse * n * n the sample
\* s2*s2*a + 2*s2*s*c + s*s*b is the numerator below.
BezierSample(a, b, offset, t, n) ==
  LET den == 2 * SmoothnessInverse * n * n
      control == SmoothnessInverse * (a + b) + 2 * offset
      num == (n - t) * (n - t) * a * 2 * SmoothnessInverse
             + 2 * (n - t) * t * control
             + t * t * b * 2 * SmoothnessInverse
  IN  (num * PathScale) \div den

\* the loop run for t < segments
generateCurvedPath_Short(start, end, segments) ==
  LET dx == Degrees(end.lng) - Degrees(start.lng)
      dy == Degrees(end.lat) - Degrees(start.lat)
  IN  [k \in 1..segments |->
        << BezierSample(Degrees(start.lng), Degrees(end.lng), dy, k - 1,
                        segments),
           BezierSample(Degrees(start.lat), Degrees(end.lat), -dx, k - 1,
                        segments) >>]

\* points.push([lng, lat]) for t = 0..segments
generateCurvedPath(start, end, segments) ==
  LET dx == Degrees(end.lng) - Degrees(start.lng)
      dy == Degrees(end.lat) - Degrees(start.lat)
  IN  [k \in 1..(segments + 1) |->
        << BezierSample(Degrees(start.lng), Degrees(end.lng), dy, k - 1,
                        segments),
           BezierSample(Degrees(start.lat), Degrees(end.lat), -dx, k - 1,
                        segments) >>]

\* the list of line 11 without 'ferry'
CurvedModes_NoFerry == {"flight", "direct"}

\* the modes answered without a request
CurvedModes == {"ferry", "flight", "direct"}

\* every mode routed as a car
Profile_AlwaysCar(mode) == "car"

\* mode === 'train' ? 'car' : mode
Profile(mode) == IF mode = "train" THEN "car" ELSE mode

\* The routing service: what one request can come back with.
\*   "ok"       code 'Ok' with route coordinates
\*   "notOk"    a response without code 'Ok' or without coordinates
\*   "throws"   fetch or response.json() throws
Outcomes == {"ok", "notOk", "throws"}

\* a point [lng, lat] of a location, in 1/PathScale
PathPoint(loc) ==
  << Degrees(loc.lng) * PathScale, Degrees(loc.lat) * PathScale >>

\* The geometry the service answers with when it finds a route: a line
\* through a waypoint off the straight line (never the fallback curve).
ServiceRoutes(start, end) ==
  { << PathPoint(start),
       << (Degrees(start.lng) + Degrees(end.lng)) * (PathScale \div 2) + 1,
          (Degrees(start.lat) + Degrees(end.lat)) * (PathScale \div 2) - 1 >>,
       PathPoint(end) >> }

\* fetchRoute without its catch: a thrown request error leaves fetchRoute
fetchRouteResult_NoCatch(start, end, outcome, coordinates) ==
  IF outcome = "ok" THEN [threw |-> FALSE, route |-> coordinates]
  ELSE IF outcome = "throws" THEN [threw |-> TRUE, route |-> << >>]
  ELSE [threw |-> FALSE,
        route |-> generateCurvedPath(start, end, DefaultSegments)]

\* fetchRoute once the request has come back with `outcome`
\* (lines 22-32): the service's coordinates, or the fallback curve both
\* after the catch and after a response that is not usable.  threw says
\* whether fetchRoute itself throws.
fetchRouteResult(start, end, outcome, coordinates) ==
  IF outcome = "ok" THEN [threw |-> FALSE, route |-> coordinates]
  ELSE [threw |-> FALSE,
        route |-> generateCurvedPath(start, end, DefaultSegments)]

----------------------------------------------------------------------------
(* polyline.encode of @mapbox/polyline, precision 5.  The package is a     *)
(* dependency of the script and its source is not part of the repository;  *)
(* the definitions follow the encoded polyline format as the package       *)
(* implements it: each value rounded, then the difference from the value   *)
(* before it written in chunks of five bits.                               *)

PolylineFactor == 100000

RECURSIVE GCD(_, _)
GCD(a, b) == IF b = 0 THEN a ELSE GCD(b, a % b)

RECURSIVE IsPowerOfTwo(_)
IsPowerOfTwo(n) == n = 1 \/ (n > 1 /\ n % 2 = 0 /\ IsPowerOfTwo(n \div 2))

\* py2_round(value * factor) of a coordinate counted in 1/scale of a
\* degree: Math.floor(Math.abs(x) + 0.5) with the sign of x.  The fraction
\* rest / scale is brought to lowest terms with the factor first.  The
\* code multiplies and adds in double precision; the operator is defined
\* on the scales where that gives the result of exact arithmetic: a power
\* of two (the value, its product with the factor and the sum with 0.5
\* are held by a double exactly), and a divisor of the factor (the exact
\* product is a whole number, which the error of a double does not move
\* by a half).
Py2RoundAt(v, scale) ==
  LET a == IF v < 0 THEN -v ELSE v
      sgn == IF v < 0 THEN -1 ELSE 1
      whole == a \div scale
      rest == a % scale
      g == GCD(scale, PolylineFactor)
      f == PolylineFactor \div g
      d == scale \div g
  IN  CASE IsPowerOfTwo(scale) \/ PolylineFactor % scale = 0 ->
        sgn * (whole * PolylineFactor + (2 * rest * f + d) \div (2 * d))

\* py2_round(value * factor) of a coordinate counted in 1/PathScale
Py2Round(v) == Py2RoundAt(v, PathScale)

\* the characters of one unsigned chunked value
RECURSIVE EncodeChunks(_)
EncodeChunks(c) ==
  IF c >= 32 THEN << (32 + (c % 32)) + 63 >> \o EncodeChunks(c \div 32)
  ELSE << c + 63 >>

\* encode(current, previous, factor), the values counted in 1/scale
EncodeValue(current, previous, scale) ==
  LET d == (Py2RoundAt(current, scale) - Py2RoundAt(previous, scale)) * 2
      c == IF d < 0 THEN -d - 1 ELSE d
  IN  EncodeChunks(c)

RECURSIVE EncodeFrom(_, _, _)
EncodeFrom(coords, k, scale) ==
  IF k > Len(coords) THEN << >>
  ELSE LET prev == IF k = 1 THEN << 0, 0 >> ELSE coords[k - 1]
       IN  EncodeValue(coords[k][1], prev[1], scale)
             \o EncodeValue(coords[k][2], prev[2], scale)
             \o EncodeFrom(coords, k + 1, scale)

\* polyline.encode(coordinates) of coordinates counted in 1/scale
polylineEncodeAt(coords, scale) == EncodeFrom(coords, 1, scale)

\* polyline.encode(coordinates) of a path of the batch
polylineEncode(coords) == polylineEncodeAt(coords, PathScale)

\* polyline.decode: one value read from position index on, the chunks up to
\* the first one below 0x20
RECURSIVE DecodeChunks(_, _, _, _)
DecodeChunks(str, index, shift, result) ==
  LET byte == str[index] - 63
      sum == result + (byte % 32) * shift
  IN  IF byte >= 32 THEN DecodeChunks(str, index + 1, shift * 32, sum)
      ELSE [result |-> sum, index |-> index + 1]

\* (result & 1) ? ((-result - 1) / 2) : (result / 2)
DecodeChange(result) ==
  IF result % 2 = 1 THEN -((result + 1) \div 2) ELSE result \div 2

\* the body of while (index < str.length): the latitude change, the
\* longitude change, the two sums and the index after them
DecodePoint(str, index, lat, lng) ==
  LET a == DecodeChunks(str, index, 1, 0)
      b == DecodeChunks(str, a.index, 1, 0)
  IN  [lat |-> lat + DecodeChange(a.result),
       lng |-> lng + DecodeChange(b.result),
       index |-> b.index]

\* while (index < str.length): coordinates.push of the two sums
RECURSIVE DecodeFrom(_, _, _, _)
DecodeFrom(str, index, lat, lng) ==
  IF index > Len(str) THEN << >>
  ELSE CHOOSE rest \in
         { << << p.lat, p.lng >> >> \o DecodeFrom(str, p.index, p.lat, p.lng) :
             p \in { DecodePoint(str, index, lat, lng) } } : TRUE

\* polyline.decode(str): the pairs [lat, lng], counted in 1/PolylineFactor
\* of a degree (the code divides each sum by the factor)
polylineDecode(str) == DecodeFrom(str, 1, 0, 0)

\* decoded.map(([lat, lng]) => [lng, lat]) of the viewer
lngLatCoordinates(decoded) ==
  Assigned(decoded, LAMBDA pairs :
    [k \in 1..Len(pairs) |-> << pairs[k][2], pairs[k][1] >>])

\* the coordinates the viewer draws for a stored polyline: polyline.decode,
\* then the swap to [lng, lat]
trailCoordinates(str) == lngLatCoordinates(polylineDecode(str))

\* route.map(([lng, lat]) => [lat, lng])
latLngRoute(route) == [k \in 1..Len(route) |-> << route[k][2], route[k][1] >>]

\* the record pushed to routeSegments (lines 261-266)
RouteRecord(mode, from, to, route) ==
  [mode |-> mode, from |-> from, to |-> to,
   polyline |-> polylineEncode(latLngRoute(route))]

----------------------------------------------------------------------------
(* Entry files and parseMDX *)

\* Bounds of the journals explored
MaxEntries == 2

MaxSegments == 2

Name_A == << "A" >>

Name_B == << "B" >>

\* the frontmatter location blocks of the entry files (lat, lng as written)
RawLocations ==
  { [lat |-> << "1" >>, lng |-> << "1" >>, name |-> Name_A],
    [lat |-> << "2" >>, lng |-> << "1" >>, name |-> Name_B] }

\* the segment definitions of the entry files
SegmentDefs ==
  { [mode |-> "car", from |-> Keyword_previous, to |-> Keyword_current],
    [mode |-> "ferry", from |-> << "3", ",", " ", "3" >>,
     to |-> Keyword_current] }

\* the segments lists: up to MaxSegments legs, consecutive legs differing
SegmentLists ==
  UNION { { l \in [1..n -> SegmentDefs] :
              \A k \in 1..(n - 1) : l[k] # l[k + 1] } :
          n \in 1..MaxSegments }

\* What an entry file says about its route: a segments list, or the legacy
\* transportMode field ("" when absent), or neither.
RouteDefs ==
  { [hasSegments |-> TRUE, segments |-> l, transportMode |-> ""] :
      l \in SegmentLists }
  \cup { [hasSegments |-> FALSE, segments |-> << >>, transportMode |-> m] :
           m \in {"", "car"} }

\* what an edit of an entry file puts in place of its route definition: a
\* single leg
EditDefs ==
  { [hasSegments |-> TRUE, segments |-> << d >>, transportMode |-> ""] :
      d \in SegmentDefs }

\* The lines of an entry file, each by what line.trim() === '---' says of
\* it: the frontmatter between two delimiter lines, then the body.
PlainLayout == << "---", "text", "---", "text" >>

\* the entry file of day `date`
EntryFile(date, loc, def) ==
  [date |-> date, location |-> loc, pois |-> << >>,
   hasSegments |-> def.hasSegments, segments |-> def.segments,
   transportMode |-> def.transportMode, layout |-> PlainLayout]

\* The entries directory in filename order: file k is <date k>.mdx and
\* carries that date.  The directory may hold no entry file.
Journals ==
  UNION { { [k \in 1..n |-> EntryFile(k, locs[k], defs[k])] :
              locs \in [1..n -> RawLocations], defs \in [1..n -> RouteDefs] } :
          n \in 0..MaxEntries }

Dates == 1..MaxEntries

\* lat: parseFloat(loc.lat), lng: parseFloat(loc.lng) (lines 176-187)
parseLocation(raw) ==
  [lat |-> parseFloat(raw.lat), lng |-> parseFloat(raw.lng), name |-> raw.name]

\* lines.findIndex(line => idx > after && line.trim() === '---'), counted
\* from 0, -1 when there is none
RECURSIVE FindDelimiter(_, _)
FindDelimiter(lines, after) ==
  IF after + 1 >= Len(lines) THEN -1
  ELSE IF lines[after + 2] = "---" THEN after + 1
  ELSE FindDelimiter(lines, after + 1)

\* the test of line 119 taking one delimiter line for enough
InvalidFormat_FirstOnly(lines) == FindDelimiter(lines, -1) = -1

\* firstDelimiter === -1 || secondDelimiter === -1 (lines 115-119)
InvalidFormat(lines) ==
  LET firstDelimiter == FindDelimiter(lines, -1)
      secondDelimiter == FindDelimiter(lines, firstDelimiter)
  IN  firstDelimiter = -1 \/ secondDelimiter = -1

\* the metadata parseMDX returns for an entry file
parseMDX(file) ==
  [date |-> file.date,
   location |-> parseLocation(file.location),
   pois |-> [k \in 1..Len(file.pois) |-> parseLocation(file.pois[k])],
   hasSegments |-> file.hasSegments,
   segments |-> file.segments,
   transportMode |-> file.transportMode]

\* The transport modes the application knows (type TransportMode)
TransportMode == {"train", "car", "foot", "ferry", "direct"}

\* the mode values written in entry files: those of the enumeration, the
\* 'flight' that fetchRoute also answers, and a word that is neither
WrittenModes == TransportMode \cup {"flight", "bike"}

Name_C == << "C" >>

\* Locations of the two-day journals: two places of different names at the
\* same coordinates (written "1" and "1.0"), and two places of the same name
\* at different coordinates
VariedLocations ==
  { [lat |-> << "1" >>, lng |-> << "1" >>, name |-> Name_A],
    [lat |-> << "1", ".", "0" >>, lng |-> << "1" >>, name |-> Name_C],
    [lat |-> << "2" >>, lng |-> << "1" >>, name |-> Name_A],
    [lat |-> << "2" >>, lng |-> << "1" >>, name |-> Name_B] }

NoRouteDef == [hasSegments |-> FALSE, segments |-> << >>, transportMode |-> ""]

\* Route definitions of the second day: one leg from the previous day in
\* each written mode, that leg followed by a ferry leg from given
\* coordinates, or the legacy field
VariedRouteDefs ==
  { [hasSegments |-> TRUE,
     segments |-> << [mode |-> m, from |-> Keyword_previous,
                      to |-> Keyword_current] >>,
     transportMode |-> ""] : m \in WrittenModes }
  \cup { [hasSegments |-> TRUE,
          segments |-> << [mode |-> "car", from |-> Keyword_previous,
                           to |-> Keyword_current],
                          [mode |-> "ferry", from |-> << "3", ",", " ", "3" >>,
                           to |-> Keyword_current] >>,
          transportMode |-> ""] }
  \cup { [hasSegments |-> FALSE, segments |-> << >>, transportMode |-> m] :
           m \in {"car", "ferry"} }

\* the journals of two days, the first without a route definition
VariedJournals ==
  { << EntryFile(1, l1, NoRouteDef), EntryFile(2, l2, def) >> :
      l1 \in VariedLocations, l2 \in VariedLocations,
      def \in VariedRouteDefs }

\* the segments of two days told apart by their names
SameLocation_ByName(a, b) == a.name = b.name

\* startLoc.lat === endLoc.lat && startLoc.lng === endLoc.lng (lines 249,
\* 279-280)
SameLocation(a, b) ==
  StrictEquals(a.lat, b.lat) /\ StrictEquals(a.lng, b.lng)

\* routesDir = <script directory>/../lib/routes, as a path from the
\* project root
routesDir == << "lib", "routes" >>

\* path.join(routesDir, `${date}.json`); the last component stands for
\* the file name <date>.json
routeFilePath(date) == Append(routesDir, date)

----------------------------------------------------------------------------
(* The batch: main() *)

VARIABLES
  entryFiles,     \* the entries directory, in sorted filename order
  routeFiles,     \* the routes directory: date -> [exists, content]
  allEntries,     \* the entries loaded by the first pass
  pc,             \* where main() stands
  i,              \* index of the second pass
  j,              \* index in the segments list of entry i
  routeSegments,  \* the records produced for entry i
  generated,      \* counter of files written
  cached,         \* counter of entries reached
  pending,        \* the routing request in flight
  run,            \* 1 in the first run of the batch, 2 in the later ones
  requests,       \* history: the routing requests sent in this run
  resolved,       \* history: the <<i, j>> whose references were parsed
  reached,        \* history: per entry reached, the state of its file then
  produced,       \* history: entry -> records produced for it in this run
  lastFetch,      \* history: the last call of fetchRoute and its result
  modified,       \* history: the entry edited, and whether a run followed
  rInput,         \* resolver harness: the arguments of one parseLocationRef
  rOutput,        \* resolver harness: what that call returned
  fInput,         \* function harness: the arguments of one call of a function
  fOutput,        \* function harness: what that call returned
  viewEntries,    \* viewer: the entries prop of JourneyViewClient
  currentDateIndex,  \* viewer: state of JourneyViewClient
  trailSegments,  \* viewer: state, the trail handed to JourneyMap
  isInitialized,  \* viewer: state
  locationHash,   \* viewer: window.location.hash without its '#'
  effects,        \* viewer: the effects React has still to run, in order
  isScrollingProgrammatically,  \* viewer: the ref of that name
  resetTimers,    \* viewer: the pending timers of handleNavigate, each by
                  \* the milliseconds left to it
  scrollTimers,   \* viewer: the number of pending timers of the scroll
                  \* into view
  loadedEntries,  \* viewer: state, per entry its date and whether its
                  \* MDXContent is there
  loading         \* viewer: per entry, the imports of its content in flight

vars ==
  << entryFiles, routeFiles, allEntries, pc, i, j, routeSegments, generated,
     cached, pending, run, requests, resolved, reached, produced, lastFetch,
     modified, rInput, rOutput, fInput, fOutput, viewEntries,
     currentDateIndex, trailSegments, isInitialized, locationHash, effects,
     isScrollingProgrammatically, resetTimers, scrollTimers, loadedEntries,
     loading >>

\* the state of the viewer
viewer ==
  << viewEntries, currentDateIndex, trailSegments, isInitialized,
     locationHash, effects, isScrollingProgrammatically, resetTimers,
     scrollTimers, loadedEntries, loading >>

\* the variables the batch leaves alone
harness == << rInput, rOutput, fInput, fOutput, viewer >>

NoLocation == [lat |-> Finite(0), lng |-> Finite(0), name |-> NoName]

NoInput == [entries |-> << >>, i |-> 0, ref |-> << >>]

NotCalled == [called |-> FALSE, ok |-> FALSE, loc |-> NoLocation]

NoPending ==
  [active |-> FALSE, start |-> NoLocation, end |-> NoLocation, mode |-> "",
   profile |-> "", from |-> << >>, to |-> << >>, legacy |-> FALSE]

NoFetch ==
  [called |-> FALSE, i |-> 0, j |-> 0, mode |-> "", start |-> NoLocation,
   end |-> NoLocation, requested |-> FALSE, outcome |-> "", threw |-> FALSE,
   result |-> << >>]

NoFile == [exists |-> FALSE, content |-> << >>]

\* no function call is under way in the function harness
NoCall == [op |-> "none"]

NoResult == [called |-> FALSE]

FunctionsIdle == fInput = NoCall /\ fOutput = NoResult

\* no hash in the address
NoHash == << >>

\* the viewer is not mounted
ViewerUnmounted ==
  /\ viewEntries = << >>
  /\ currentDateIndex = 0
  /\ trailSegments = << >>
  /\ isInitialized = FALSE
  /\ locationHash = NoHash
  /\ effects = << >>
  /\ isScrollingProgrammatically = FALSE
  /\ resetTimers = << >>
  /\ scrollTimers = 0
  /\ loadedEntries = << >>
  /\ loading = << >>

Init ==
  /\ entryFiles \in Journals
  /\ routeFiles = [d \in Dates |-> NoFile]
  /\ allEntries = << >>
  /\ pc = "load"
  /\ i = 0
  /\ j = 0
  /\ routeSegments = << >>
  /\ generated = 0
  /\ cached = 0
  /\ pending = NoPending
  /\ run = 1
  /\ requests = << >>
  /\ resolved = {}
  /\ reached = << >>
  /\ produced = [k \in 1..Len(entryFiles) |-> << >>]
  /\ lastFetch = NoFetch
  /\ modified = {}
  /\ rInput = NoInput
  /\ rOutput = NotCalled
  /\ FunctionsIdle
  /\ ViewerUnmounted

history == << requests, resolved, reached, produced, lastFetch, modified >>

\* First pass (lines 210-215): load one entry file; after the last one the
\* counters are set and the second pass starts.
LoadEntry ==
  /\ pc = "load"
  /\ Len(allEntries) < Len(entryFiles) \/ entryFiles = << >>
  /\ IF entryFiles = << >>
       \* no entry file: the first pass loads nothing
       THEN /\ pc' = "loop" /\ i' = 0 /\ generated' = 0 /\ cached' = 0
            /\ UNCHANGED allEntries
       ELSE IF InvalidFormat(entryFiles[Len(allEntries) + 1].layout)
       \* throw new Error('Invalid MDX format'): main() is left, and
       \* main().catch(console.error) prints the error (line 325)
       THEN /\ pc' = "failed"
            /\ UNCHANGED << allEntries, i, generated, cached >>
       ELSE /\ allEntries' = Append(allEntries,
                               parseMDX(entryFiles[Len(allEntries) + 1]))
            /\ IF Len(allEntries') = Len(entryFiles)
                 THEN pc' = "loop" /\ i' = 0 /\ generated' = 0 /\ cached' = 0
                 ELSE UNCHANGED << pc, i, generated, cached >>
  /\ UNCHANGED << entryFiles, routeFiles, j, routeSegments, pending, run,
                  history >>
  /\ UNCHANGED harness

\* the route file named after the place of the entry file in the directory
RouteDate_OfFilename(k) == k + 1

\* const date = entry.metadata.date (line 224), of which the route file
\* <date>.json of entry k takes its name
RouteDate(k) == allEntries[k + 1].date

\* what the history keeps of the entry reached
ReachedNow ==
  [entry |-> i, existed |-> routeFiles[RouteDate(i)].exists,
   content |-> routeFiles[RouteDate(i)].content]

\* the cached branch leaving the loop index where it is
UseCached_Stay ==
  /\ cached' = cached + 1
  /\ UNCHANGED << pc, i, j, routeSegments >>

\* cached++; continue (lines 231-234)
UseCached ==
  /\ cached' = cached + 1
  /\ i' = i + 1
  /\ UNCHANGED << pc, j, routeSegments >>

\* routeSegments = [] and the choice between the segments list and the
\* legacy transportMode (lines 237-240, 275)
BeginEntry ==
  LET entry == allEntries[i + 1]
  IN  /\ routeSegments' = << >>
      /\ j' = 0
      /\ pc' = IF entry.hasSegments THEN "segments"
               ELSE IF entry.transportMode # "" /\ i > 0 THEN "legacy"
               ELSE "write"
      /\ UNCHANGED << cached, i >>

\* the head of the second pass without the check of line 230
ReachEntry_NoCacheCheck ==
  /\ pc = "loop"
  /\ i < Len(allEntries)
  /\ reached' = Append(reached, ReachedNow)
  /\ BeginEntry
  /\ UNCHANGED << entryFiles, routeFiles, allEntries, generated, pending, run,
                  requests, resolved, produced, lastFetch, modified >>
  /\ UNCHANGED harness

\* Head of the second pass (lines 221-240, 275): the cache check, then the
\* choice between the segments list and the legacy transportMode.
ReachEntry ==
  /\ pc = "loop"
  /\ i < Len(allEntries)
  /\ reached' = Append(reached, ReachedNow)
  /\ IF routeFiles[RouteDate(i)].exists
       THEN UseCached
       ELSE BeginEntry
  /\ UNCHANGED << entryFiles, routeFiles, allEntries, generated, pending, run,
                  requests, resolved, produced, lastFetch, modified >>
  /\ UNCHANGED harness

\* routeSegments.push(record), with its history
Push(record) ==
  /\ routeSegments' = Append(routeSegments, record)
  /\ produced' = [produced EXCEPT
                    ![i + 1] = Append(@, [j |-> j, record |-> record])]

\* the request fetchRoute sends (lines 16-21)
Send(start, end, mode, from, to, legacy) ==
  /\ pending' = [active |-> TRUE, start |-> start, end |-> end, mode |-> mode,
                 profile |-> Profile(mode), from |-> from, to |-> to,
                 legacy |-> legacy]
  /\ requests' = Append(requests,
                   [i |-> i, j |-> j, mode |-> mode, profile |-> Profile(mode),
                    start |-> start, end |-> end])

\* fetchRoute answered without a request (lines 11-13)
CurveFetch(start, end, mode) ==
  [called |-> TRUE, i |-> i, j |-> j, mode |-> mode, start |-> start,
   end |-> end, requested |-> FALSE, outcome |-> "", threw |-> FALSE,
   result |-> generateCurvedPath(start, end, DefaultSegments)]

\* the error of a segment leaving the segments loop of its entry
SegmentError_EndsEntry ==
  /\ pc' = "write"
  /\ UNCHANGED << j, routeSegments, pending, requests, produced, lastFetch >>

\* the catch of lines 269-271: the error is logged and the loop goes on
\* with the next segment
SegmentError ==
  /\ j' = j + 1
  /\ UNCHANGED << pc, routeSegments, pending, requests, produced, lastFetch >>

\* One iteration of the segments loop (lines 241-254) up to the request of
\* fetchRoute, or the whole iteration when no request is sent.
ProcessSegment ==
  /\ pc = "segments"
  /\ LET entry == allEntries[i + 1]
     IN  IF j >= Len(entry.segments)
           THEN /\ pc' = "write"
                /\ UNCHANGED << j, routeSegments, pending, requests, resolved,
                                produced, lastFetch >>
           ELSE LET def == entry.segments[j + 1]
                \* const startLoc = ..., const endLoc = ... (lines 245-246)
                IN  \E startLoc \in { ResolveCall(allEntries, i, def.from) },
                       endLoc \in { ResolveCall(allEntries, i, def.to) } :
                    /\ resolved' = resolved \cup {<< i, j >>}
                    /\ IF ~startLoc.ok \/ ~endLoc.ok
                         THEN SegmentError
                       ELSE IF SameLocation(startLoc.loc, endLoc.loc)
                         THEN /\ j' = j + 1
                              /\ UNCHANGED << pc, routeSegments, pending,
                                              requests, produced, lastFetch >>
                       ELSE IF def.mode \in CurvedModes
                         THEN /\ lastFetch' = CurveFetch(startLoc.loc,
                                                endLoc.loc, def.mode)
                              /\ Push(RouteRecord(def.mode,
                                   LocationLabel(startLoc.loc),
                                   LocationLabel(endLoc.loc),
                                   lastFetch'.result))
                              /\ j' = j + 1
                              /\ UNCHANGED << pc, pending, requests >>
                       ELSE /\ Send(startLoc.loc, endLoc.loc, def.mode,
                                 LocationLabel(startLoc.loc),
                                 LocationLabel(endLoc.loc), FALSE)
                            /\ pc' = "fetching"
                            /\ UNCHANGED << j, routeSegments, produced,
                                            lastFetch >>
  /\ UNCHANGED << entryFiles, routeFiles, allEntries, i, generated, cached,
                  run, reached, modified >>
  /\ UNCHANGED harness

\* the legacy branch with the two days taken in the other order
LegacySegment_Reversed ==
  /\ pc = "legacy"
  /\ LET entry == allEntries[i + 1]
         prev == allEntries[i]
     IN  IF SameLocation(prev.location, entry.location)
           THEN /\ i' = i + 1
                /\ pc' = "loop"
                /\ UNCHANGED << routeSegments, pending, requests, produced,
                                lastFetch >>
         ELSE IF entry.transportMode \in CurvedModes
           THEN /\ lastFetch' = CurveFetch(entry.location, prev.location,
                                  entry.transportMode)
                /\ Push(RouteRecord(entry.transportMode, entry.location.name,
                          prev.location.name, lastFetch'.result))
                /\ pc' = "write"
                /\ UNCHANGED << i, pending, requests >>
         ELSE /\ Send(entry.location, prev.location, entry.transportMode,
                   entry.location.name, prev.location.name, TRUE)
              /\ pc' = "fetching"
              /\ UNCHANGED << i, routeSegments, produced, lastFetch >>
  /\ UNCHANGED << entryFiles, routeFiles, allEntries, j, generated, cached,
                  run, resolved, reached, modified >>
  /\ UNCHANGED harness

\* The legacy branch (lines 275-290) up to the request of fetchRoute.
LegacySegment ==
  /\ pc = "legacy"
  /\ LET entry == allEntries[i + 1]
         prev == allEntries[i]
     IN  IF SameLocation(prev.location, entry.location)
           \* continue (line 283): the write of line 306 is not reached
           THEN /\ i' = i + 1
                /\ pc' = "loop"
                /\ UNCHANGED << routeSegments, pending, requests, produced,
                                lastFetch >>
         ELSE IF entry.transportMode \in CurvedModes
           THEN /\ lastFetch' = CurveFetch(prev.location, entry.location,
                                  entry.transportMode)
                /\ Push(RouteRecord(entry.transportMode, prev.location.name,
                          entry.location.name, lastFetch'.result))
                /\ pc' = "write"
                /\ UNCHANGED << i, pending, requests >>
         ELSE /\ Send(prev.location, entry.location, entry.transportMode,
                   prev.location.name, entry.location.name, TRUE)
              /\ pc' = "fetching"
              /\ UNCHANGED << i, routeSegments, produced, lastFetch >>
  /\ UNCHANGED << entryFiles, routeFiles, allEntries, j, generated, cached,
                  run, resolved, reached, modified >>
  /\ UNCHANGED harness

\* the requests sent so far for the segment in flight
RequestsOfPending ==
  SelectSeq(requests, LAMBDA r : r.i = i /\ r.j = j)

\* The request has come back with `outcome` (lines 21-32); the route is
\* encoded and the record pushed (lines 256-266, 292-301).  Were fetchRoute
\* to throw, the catch of line 269 would drop the segment, and in the legacy
\* branch, which has no catch, main() would reject.
Respond(outcome, coordinates) ==
  LET r == fetchRouteResult(pending.start, pending.end, outcome, coordinates)
  IN  /\ lastFetch' =
           [called |-> TRUE, i |-> i, j |-> j, mode |-> pending.mode,
            start |-> pending.start, end |-> pending.end,
            requested |-> TRUE, outcome |-> outcome,
            threw |-> r.threw, result |-> r.route]
      /\ IF r.threw
           THEN /\ UNCHANGED << routeSegments, produced >>
                /\ IF pending.legacy
                     THEN pc' = "failed" /\ j' = j
                     ELSE pc' = "segments" /\ j' = j + 1
           ELSE /\ Push(RouteRecord(pending.mode, pending.from, pending.to,
                          r.route))
                /\ IF pending.legacy
                     THEN pc' = "write" /\ j' = j
                     ELSE pc' = "segments" /\ j' = j + 1
      /\ pending' = NoPending
      /\ UNCHANGED requests

\* a fetchRoute that sends the request again when it has thrown
RouteResponse_Retry ==
  /\ pc = "fetching"
  /\ \E outcome \in Outcomes :
       \E coordinates \in IF outcome = "ok"
                            THEN ServiceRoutes(pending.start, pending.end)
                            ELSE { << >> } :
         IF outcome = "throws" /\ Len(RequestsOfPending) < 2
           THEN /\ requests' = Append(requests, requests[Len(requests)])
                /\ UNCHANGED << pc, j, routeSegments, produced, lastFetch,
                                pending >>
           ELSE Respond(outcome, coordinates)
  /\ UNCHANGED << entryFiles, routeFiles, allEntries, i, generated, cached,
                  run, resolved, reached, modified >>
  /\ UNCHANGED harness

\* The answer of the routing service to the request in flight.
RouteResponse ==
  /\ pc = "fetching"
  /\ \E outcome \in Outcomes :
       \E coordinates \in IF outcome = "ok"
                            THEN ServiceRoutes(pending.start, pending.end)
                            ELSE { << >> } :
         Respond(outcome, coordinates)
  /\ UNCHANGED << entryFiles, routeFiles, allEntries, i, generated, cached,
                  run, resolved, reached, modified >>
  /\ UNCHANGED harness

\* the end of the iteration without the test of line 306
WriteRoutes_Always ==
  /\ pc = "write"
  /\ routeFiles' = [routeFiles EXCEPT ![allEntries[i + 1].date] =
                      [exists |-> TRUE, content |-> routeSegments]]
  /\ generated' = generated + 1
  /\ i' = i + 1
  /\ pc' = "loop"
  /\ UNCHANGED << entryFiles, allEntries, j, routeSegments, cached, pending,
                  run, requests, resolved, reached, produced, lastFetch,
                  modified >>
  /\ UNCHANGED harness

\* the end of the iteration counting the routes without writing the file
WriteRoutes_NoFile ==
  /\ pc = "write"
  /\ IF Len(routeSegments) > 0
       THEN generated' = generated + 1
       ELSE UNCHANGED generated
  /\ i' = i + 1
  /\ pc' = "loop"
  /\ UNCHANGED << entryFiles, routeFiles, allEntries, j, routeSegments, cached,
                  pending, run, requests, resolved, reached, produced,
                  lastFetch, modified >>
  /\ UNCHANGED harness

\* End of the iteration (lines 306-316): the route file is written when
\* there is at least one record.
WriteRoutes ==
  /\ pc = "write"
  /\ LET date == RouteDate(i)
     IN  IF Len(routeSegments) > 0
           THEN /\ routeFiles' = [routeFiles EXCEPT ![date] =
                                    [exists |-> TRUE,
                                     content |-> routeSegments]]
                /\ generated' = generated + 1
           ELSE UNCHANGED << routeFiles, generated >>
  /\ i' = i + 1
  /\ pc' = "loop"
  /\ UNCHANGED << entryFiles, allEntries, j, routeSegments, cached, pending,
                  run, requests, resolved, reached, produced, lastFetch,
                  modified >>
  /\ UNCHANGED harness

\* the second pass is over (lines 319-322)
Complete ==
  /\ pc = "loop"
  /\ i = Len(allEntries)
  /\ pc' = "done"
  /\ UNCHANGED << entryFiles, routeFiles, allEntries, i, j, routeSegments,
                  generated, cached, pending, run, history >>
  /\ UNCHANGED harness

\* the entry file with its route definition replaced
WithRouteDef(file, def) ==
  [file EXCEPT !.hasSegments = def.hasSegments, !.segments = def.segments,
               !.transportMode = def.transportMode]

\* Between two runs the author adds or modifies the segment definitions of
\* one entry file.
EditEntry ==
  /\ pc = "done"
  /\ modified = {}
  /\ \E k \in 1..Len(entryFiles) : \E def \in EditDefs :
       /\ WithRouteDef(entryFiles[k], def) # entryFiles[k]
       /\ entryFiles' = [entryFiles EXCEPT ![k] = WithRouteDef(@, def)]
       /\ modified' = {[entry |-> k - 1, rerun |-> FALSE]}
  /\ UNCHANGED << routeFiles, allEntries, pc, i, j, routeSegments, generated,
                  cached, pending, run, requests, resolved, reached, produced,
                  lastFetch >>
  /\ UNCHANGED harness

\* npm run generate-routes, once more
StartRun ==
  /\ pc = "done"
  /\ run' = 2
  /\ pc' = "load"
  /\ allEntries' = << >>
  /\ i' = 0
  /\ j' = 0
  /\ routeSegments' = << >>
  /\ generated' = 0
  /\ cached' = 0
  /\ requests' = << >>
  /\ resolved' = {}
  /\ reached' = << >>
  /\ produced' = [k \in 1..Len(entryFiles) |-> << >>]
  /\ lastFetch' = NoFetch
  /\ modified' = { [m EXCEPT !.rerun = TRUE] : m \in modified }
  /\ UNCHANGED << entryFiles, routeFiles, pending >>
  /\ UNCHANGED harness

Next ==
  \/ LoadEntry
  \/ ReachEntry
  \/ ProcessSegment
  \/ LegacySegment
  \/ RouteResponse
  \/ WriteRoutes
  \/ Complete
  \/ EditEntry
  \/ StartRun

Spec == Init /\ [][Next]_vars

\* a step of main(): the script runs to its end once started, every await
\* of it (a routing request, the 200 ms pause) coming back
BatchStep ==
  \/ LoadEntry
  \/ ReachEntry
  \/ ProcessSegment
  \/ LegacySegment
  \/ RouteResponse
  \/ WriteRoutes
  \/ Complete

SpecFair == Init /\ [][Next]_vars /\ WF_vars(BatchStep)

\* the first run of the batch over one of the journals given, no route
\* file being there
InitBatch(journals) ==
  /\ entryFiles \in journals
  /\ routeFiles = [d \in Dates |-> NoFile]
  /\ allEntries = << >>
  /\ pc = "load"
  /\ i = 0
  /\ j = 0
  /\ routeSegments = << >>
  /\ generated = 0
  /\ cached = 0
  /\ pending = NoPending
  /\ run = 1
  /\ requests = << >>
  /\ resolved = {}
  /\ reached = << >>
  /\ produced = [k \in 1..Len(entryFiles) |-> << >>]
  /\ lastFetch = NoFetch
  /\ modified = {}
  /\ rInput = NoInput
  /\ rOutput = NotCalled
  /\ FunctionsIdle
  /\ ViewerUnmounted

\* the layouts of the entry files: the plain one, text before the
\* frontmatter, and the ones that lack a delimiter line (the second, both,
\* every line).  The "text" between two delimiter lines stands for the
\* frontmatter lines that hold the date, the location and the route
\* definition of the file: a file that holds them has no layout with
\* nothing between the two.
Layouts ==
  { PlainLayout,
    << "text", "---", "text", "---" >>,
    << "---", "text" >>,
    << "text", "---" >>,
    << "text" >>,
    << >> }

\* a route definition by the legacy transportMode field
LegacyCar == [hasSegments |-> FALSE, segments |-> << >>, transportMode |-> "car"]

\* the journals whose files have any of the layouts, each day with a car leg
\* from the day before, a ferry leg from a place given by coordinates, or
\* the legacy field
LayoutJournals ==
  UNION { { [k \in 1..n |->
               [EntryFile(k, locs[k], defs[k]) EXCEPT !.layout = layouts[k]]] :
              locs \in [1..n -> RawLocations],
              defs \in [1..n -> EditDefs \cup { LegacyCar }],
              layouts \in [1..n -> Layouts] } :
          n \in 1..MaxEntries }

InitLayout == InitBatch(LayoutJournals)

\* the journals of MaxEntries files in which a file carries any date in its
\* frontmatter, the date of another file too: file k is named after day k
DatedJournals ==
  { [k \in 1..MaxEntries |-> EntryFile(dates[k], locs[k], defs[k])] :
      dates \in [1..MaxEntries -> Dates],
      locs \in [1..MaxEntries -> RawLocations],
      defs \in [1..MaxEntries -> EditDefs \cup { LegacyCar, NoRouteDef }] }

InitDated == InitBatch(DatedJournals)

\* the batch over the journals of any dates
SpecDated == InitDated /\ [][Next]_vars

\* the batch over the journals of any layout
SpecLayout == InitLayout /\ [][Next]_vars

\* the batch over the two-day journals of varied modes and places
InitVaried ==
  /\ entryFiles \in VariedJournals
  /\ routeFiles = [d \in Dates |-> NoFile]
  /\ allEntries = << >>
  /\ pc = "load"
  /\ i = 0
  /\ j = 0
  /\ routeSegments = << >>
  /\ generated = 0
  /\ cached = 0
  /\ pending = NoPending
  /\ run = 1
  /\ requests = << >>
  /\ resolved = {}
  /\ reached = << >>
  /\ produced = [k \in 1..Len(entryFiles) |-> << >>]
  /\ lastFetch = NoFetch
  /\ modified = {}
  /\ rInput = NoInput
  /\ rOutput = NotCalled
  /\ FunctionsIdle
  /\ ViewerUnmounted

SpecVaried == InitVaried /\ [][Next]_vars

----------------------------------------------------------------------------
(* parseLocationRef on its own: the calls of lines 245-246 over journals    *)
(* with points of interest and repeated names                               *)

MaxResolveEntries == 3

Name_coords == << "1", ",", "2" >>

Ref_spaced == << "1", ",", " ", "2" >>

\* "51.2294, 2.9267", the pair of the documentation
Ref_fraction ==
  << "5", "1", ".", "2", "2", "9", "4", ",", " ", "2", ".", "9", "2", "6",
     "7" >>

\* "-1.50,-2.": a negative pair, a fraction ending in 0 and a numeral
\* ending in its point
Ref_negative == << "-", "1", ".", "5", "0", ",", "-", "2", "." >>

Ref_unknown == << "Z" >>

\* the from/to values tried
Refs ==
  { Keyword_current, Keyword_previous, Name_A, Name_B, Name_coords,
    Ref_spaced, Ref_fraction, Ref_negative, Ref_unknown }

\* primary locations: two plain names, a place called "previous" and a
\* place whose name reads as a coordinate pair
ResolvePrimaries ==
  { [lat |-> << "1" >>, lng |-> << "1" >>, name |-> Name_A],
    [lat |-> << "2" >>, lng |-> << "1" >>, name |-> Name_B],
    [lat |-> << "2" >>, lng |-> << "3" >>, name |-> Keyword_previous],
    [lat |-> << "3" >>, lng |-> << "1" >>, name |-> Name_coords] }

\* points of interest: none, a second place called A, or a place whose name
\* reads as a coordinate pair followed by a second place called B
ResolvePois ==
  { << >>,
    << [lat |-> << "3" >>, lng |-> << "2" >>, name |-> Name_A] >>,
    << [lat |-> << "3" >>, lng |-> << "3" >>, name |-> Name_coords],
       [lat |-> << "1" >>, lng |-> << "3" >>, name |-> Name_B] >> }

ResolveEntry(date, loc, pois) ==
  parseMDX([date |-> date, location |-> loc, pois |-> pois,
            hasSegments |-> FALSE, segments |-> << >>,
            transportMode |-> ""])

ResolveJournals ==
  UNION { { [k \in 1..n |-> ResolveEntry(k, locs[k], pois[k])] :
              locs \in [1..n -> ResolvePrimaries],
              pois \in [1..n -> ResolvePois] } :
          n \in 1..MaxResolveEntries }

InitResolve ==
  /\ entryFiles = << >>
  /\ routeFiles = [d \in Dates |-> NoFile]
  /\ allEntries = << >>
  /\ pc = "resolve"
  /\ i = 0
  /\ j = 0
  /\ routeSegments = << >>
  /\ generated = 0
  /\ cached = 0
  /\ pending = NoPending
  /\ run = 1
  /\ requests = << >>
  /\ resolved = {}
  /\ reached = << >>
  /\ produced = << >>
  /\ lastFetch = NoFetch
  /\ modified = {}
  /\ \E entries \in ResolveJournals : \E k \in 0..(Len(entries) - 1) :
       \E ref \in Refs :
         rInput = [entries |-> entries, i |-> k, ref |-> ref]
  /\ rOutput = NotCalled
  /\ FunctionsIdle
  /\ ViewerUnmounted

ResolveRef ==
  /\ ~rOutput.called
  /\ rInput # NoInput
  /\ LET r == ResolveCall(rInput.entries, rInput.i, rInput.ref)
     IN  rOutput' = [called |-> TRUE, ok |-> r.ok, loc |-> r.loc]
  /\ UNCHANGED << entryFiles, routeFiles, allEntries, pc, i, j, routeSegments,
                  generated, cached, pending, run, requests, resolved,
                  reached, produced, lastFetch, modified, rInput, fInput,
                  fOutput, viewer >>

NextResolve == ResolveRef

SpecResolve == InitResolve /\ [][NextResolve]_vars

----------------------------------------------------------------------------
(* The number conversion of parseMDX (lines 176-187) on any frontmatter    *)
(* value                                                                   *)

\* the location and the points of interest parseMDX returns
parseMDXAny(file) ==
  [location |-> parseLocation(file.location),
   pois |-> [k \in 1..Len(file.pois) |-> parseLocation(file.pois[k])]]

\* Bound of the entry files loaded
MaxLoadPois == 1

\* the values written after lat: and lng: in the entry files: numerals, a
\* numeral with an exponent part, a numeral followed by a letter, a word,
\* the word Infinity, and nothing
RawNumbers ==
  { << "1" >>, << "-", "2" >>, << "1", ".", "0" >>, << "2", "e", "1" >>,
    << "2", "x" >>, << "x" >>, << "-" >> \o InfinityWord, << >> }

RawLocationsAny(name) ==
  { [lat |-> lat, lng |-> lng, name |-> name] :
      lat \in RawNumbers, lng \in RawNumbers }

LoadFiles ==
  { [location |-> loc, pois |-> pois] :
      loc \in RawLocationsAny(Name_A),
      pois \in UNION { [1..n -> RawLocationsAny(Name_B)] :
                         n \in 0..MaxLoadPois } }

\* the batch variables of a specification that does not run the batch
BatchAtRest ==
  /\ entryFiles = << >>
  /\ routeFiles = [d \in Dates |-> NoFile]
  /\ allEntries = << >>
  /\ pc = "resolve"
  /\ i = 0
  /\ j = 0
  /\ routeSegments = << >>
  /\ generated = 0
  /\ cached = 0
  /\ pending = NoPending
  /\ run = 1
  /\ requests = << >>
  /\ resolved = {}
  /\ reached = << >>
  /\ produced = << >>
  /\ lastFetch = NoFetch
  /\ modified = {}
  /\ rInput = NoInput
  /\ rOutput = NotCalled

batch ==
  << entryFiles, routeFiles, allEntries, pc, i, j, routeSegments, generated,
     cached, pending, run, requests, resolved, reached, produced, lastFetch,
     modified, rInput, rOutput >>

InitLoad ==
  /\ BatchAtRest
  /\ ViewerUnmounted
  /\ \E file \in LoadFiles : fInput = [op |-> "parseMDX", file |-> file]
  /\ fOutput = NoResult

\* const parsed = parseMDX(content) (line 213), its numbers
LoadFile ==
  /\ fInput.op = "parseMDX"
  /\ ~fOutput.called
  /\ LET parsed == parseMDXAny(fInput.file)
     IN  fOutput' = [called |-> TRUE, location |-> parsed.location,
                     pois |-> parsed.pois]
  /\ UNCHANGED << batch, fInput, viewer >>

NextLoad == LoadFile

SpecLoad == InitLoad /\ [][NextLoad]_vars

\* C12: after the load pass the primary location and every point of
\* interest of a loaded entry have a latitude and a longitude that are
\* finite numbers, never NaN.
C12_LoadedCoordinatesFinite ==
  fOutput.called =>
    /\ IsFiniteNumber(fOutput.location.lat)
    /\ IsFiniteNumber(fOutput.location.lng)
    /\ \A k \in 1..Len(fOutput.pois) :
         /\ IsFiniteNumber(fOutput.pois[k].lat)
         /\ IsFiniteNumber(fOutput.pois[k].lng)

----------------------------------------------------------------------------
(* generateCurvedPath on its own *)

\* Bound of the coordinates of the curves drawn: whole degrees from
\* -MaxCurveDegrees to MaxCurveDegrees
MaxCurveDegrees == 1

CurveEnds ==
  { [lat |-> Finite(lat), lng |-> Finite(lng), name |-> NoName] :
      lat \in (-MaxCurveDegrees)..MaxCurveDegrees,
      lng \in (-MaxCurveDegrees)..MaxCurveDegrees }

\* the third argument: omitted (the empty sequence), or a number of
\* segments whose samples are whole multiples of 1/PathScale
SegmentsArgs ==
  { << >> } \cup { << n >> : n \in { m \in 1..DefaultSegments :
      (DefaultSegments * DefaultSegments) % (m * m) = 0 } }

\* segments = 20 when the argument is omitted
SegmentsOf(arg) == IF arg = << >> THEN DefaultSegments ELSE arg[1]

InitCurve ==
  /\ BatchAtRest
  /\ ViewerUnmounted
  /\ \E start \in CurveEnds, end \in CurveEnds, arg \in SegmentsArgs :
       fInput = [op |-> "generateCurvedPath", start |-> start, end |-> end,
                 segments |-> arg]
  /\ fOutput = NoResult

\* generateCurvedPath(start, end) / generateCurvedPath(start, end, n)
CallCurve ==
  /\ fInput.op = "generateCurvedPath"
  /\ ~fOutput.called
  /\ fOutput' = [called |-> TRUE,
                 points |-> generateCurvedPath(fInput.start, fInput.end,
                                               SegmentsOf(fInput.segments))]
  /\ UNCHANGED << batch, fInput, viewer >>

NextCurve == CallCurve

SpecCurve == InitCurve /\ [][NextCurve]_vars

\* The point at parameter t / n of the quadratic Bezier through a, c, b by
\* repeated interpolation (de Casteljau), a, c, b in tenths of a degree and
\* the result in 1/PathScale
Casteljau(a, c, b, t, n) ==
  LET q0 == a * (n - t) + c * t
      q1 == c * (n - t) + b * t
  IN  ((q0 * (n - t) + q1 * t) * (PathScale \div 10)) \div (n * n)

\* the control point of the curve from start to end, in tenths of a degree
ControlPoint(start, end) ==
  [lng |-> 5 * (start.lng + end.lng) + 2 * (end.lat - start.lat),
   lat |-> 5 * (start.lat + end.lat) - 2 * (end.lng - start.lng)]

\* C17: for a whole number n >= 1, generateCurvedPath(start, end, n) returns
\* exactly n + 1 points (21 when n is omitted), each in [lng, lat] order,
\* the point of index t being the quadratic Bezier of start, the control
\* point and end at parameter t / n; the first point is start and the last
\* point is end.
C17_CurveSamples ==
  (fOutput.called /\ fInput.op = "generateCurvedPath") =>
    LET n == SegmentsOf(fInput.segments)
        start == [lng |-> Degrees(fInput.start.lng),
                  lat |-> Degrees(fInput.start.lat)]
        end == [lng |-> Degrees(fInput.end.lng),
                lat |-> Degrees(fInput.end.lat)]
        c == ControlPoint(start, end)
        points == fOutput.points
    IN  /\ Len(points) = n + 1
        /\ fInput.segments = << >> => Len(points) = 21
        /\ points[1] = << start.lng * PathScale, start.lat * PathScale >>
        /\ points[n + 1] = << end.lng * PathScale, end.lat * PathScale >>
        /\ \A t \in 0..n :
             points[t + 1] =
               << Casteljau(10 * start.lng, c.lng, 10 * end.lng, t, n),
                  Casteljau(10 * start.lat, c.lat, 10 * end.lat, t, n) >>

\* a curve of five points was drawn between two places that differ in
\* latitude and in longitude, each off its own diagonal
C17_Witness ==
  /\ fOutput.called
  /\ fInput.op = "generateCurvedPath"
  /\ fInput.segments = << 4 >>
  /\ fInput.start.lat # fInput.start.lng
  /\ fInput.end.lat # fInput.end.lng
  /\ fInput.start.lat # fInput.end.lat
  /\ fInput.start.lng # fInput.end.lng
  /\ Len(fOutput.points) = 5

----------------------------------------------------------------------------
(* fetchRoute on its own *)

\* the third argument: omitted (the empty sequence), or a mode as written
ModeArgs == { << >> } \cup { << m >> : m \in WrittenModes }

\* mode = 'car' when the argument is omitted (line 9)
ModeOf(arg) == IF arg = << >> THEN "car" ELSE arg[1]

InitFetch ==
  /\ BatchAtRest
  /\ ViewerUnmounted
  /\ \E start \in CurveEnds, end \in CurveEnds, arg \in ModeArgs :
       fInput = [op |-> "fetchRoute", start |-> start, end |-> end,
                 mode |-> arg]
  /\ fOutput = NoResult

\* fetchRoute(start, end) / fetchRoute(start, end, mode) up to its request
\* (lines 9-21), or to its end when it sends none
CallFetchRoute ==
  /\ fInput.op = "fetchRoute"
  /\ ~fOutput.called
  /\ \E mode \in { ModeOf(fInput.mode) } :
       fOutput' =
         IF mode \in CurvedModes
           THEN [called |-> TRUE, requested |-> FALSE, profile |-> "",
                 from |-> << >>, to |-> << >>, returned |-> TRUE,
                 route |-> generateCurvedPath(fInput.start, fInput.end,
                                              DefaultSegments)]
           ELSE [called |-> TRUE, requested |-> TRUE,
                 profile |-> Profile(mode),
                 from |-> << fInput.start.lng, fInput.start.lat >>,
                 to |-> << fInput.end.lng, fInput.end.lat >>,
                 returned |-> FALSE, route |-> << >>]
  /\ UNCHANGED << batch, fInput, viewer >>

\* the request comes back and fetchRoute returns (lines 22-32)
FetchRouteReturns ==
  /\ fInput.op = "fetchRoute"
  /\ fOutput.called
  /\ ~fOutput.returned
  /\ \E outcome \in Outcomes :
       \E coordinates \in IF outcome = "ok"
                            THEN ServiceRoutes(fInput.start, fInput.end)
                            ELSE { << >> } :
         fOutput' = [fOutput EXCEPT
                       !.returned = TRUE,
                       !.route = fetchRouteResult(fInput.start, fInput.end,
                                                  outcome, coordinates).route]
  /\ UNCHANGED << batch, fInput, viewer >>

NextFetch == CallFetchRoute \/ FetchRouteReturns

SpecFetch == InitFetch /\ [][NextFetch]_vars

\* C24: fetchRoute selects the routing profile from the mode: mode train is
\* requested with profile 'car', every other road mode is requested with a
\* profile equal to the mode name, and an omitted mode defaults to 'car'.
C24_ProfileOfMode ==
  (fOutput.called /\ fInput.op = "fetchRoute") =>
    /\ fInput.mode = << "train" >> =>
         fOutput.requested /\ fOutput.profile = "car"
    /\ fInput.mode = << >> =>
         fOutput.requested /\ fOutput.profile = "car"
    /\ ( /\ fInput.mode # << >>
         /\ fInput.mode # << "train" >>
         /\ fInput.mode[1] \notin {"ferry", "flight", "direct"} )
       => fOutput.requested /\ fOutput.profile = fInput.mode[1]
    /\ fOutput.requested =>
         /\ fOutput.from = << fInput.start.lng, fInput.start.lat >>
         /\ fOutput.to = << fInput.end.lng, fInput.end.lat >>

\* a route on foot between two different places was requested with the
\* profile foot, and fetchRoute has returned
C24_Witness ==
  /\ fOutput.called
  /\ fInput.op = "fetchRoute"
  /\ fInput.mode = << "foot" >>
  /\ fInput.start # fInput.end
  /\ fOutput.requested
  /\ fOutput.profile = "foot"
  /\ fOutput.returned

----------------------------------------------------------------------------
(* The viewer, JourneyViewClient: the current entry, the trail of the map   *)
(* and the hash of the address.  A state is a committed render; effects     *)
(* holds the effect runs React still owes, each with the currentDateIndex   *)
(* of the render that scheduled it.  React runs the effects of a commit     *)
(* before it renders the next update, so a click, a scroll or the end of   *)
(* an import is handled with no effect pending.                             *)

\* Bound of the number of entries of the journey viewed
MaxViewEntries == 3

\* Bound of the number of reset timers of handleNavigate pending at once
MaxResetTimers == 2

\* Bound of the number of scrollIntoView timers pending at once
MaxScrollTimers == 1

\* Bound of the number of imports in flight while the viewer moves on
MaxPendingLoads == 1

\* setTimeout(..., 1000) of handleNavigate, in milliseconds
ResetDelay == 1000

\* a segment handed to the viewer without route data: the frontmatter
\* definition of an entry that has no generated routes
NoPolylineSegment ==
  [mode |-> "train", from |-> Keyword_previous, to |-> Keyword_current,
   polyline |-> << >>]

\* the segments lists of an entry of the viewer: none, one generated route,
\* two generated routes around a definition without polyline;
\* the routes are road routes of two points
ViewSegmentLists ==
  LET road == << << PathScale, PathScale >>, << PathScale, 2 * PathScale >> >>
      back == << << PathScale, 2 * PathScale >>, << -PathScale, 1 >> >>
  IN  { << >>,
        << RouteRecord("car", Name_A, Name_B, road) >>,
        << RouteRecord("train", Name_A, Name_B, road),
           NoPolylineSegment,
           RouteRecord("foot", Name_B, Name_A, back) >> }

\* the entries prop: entry k carries the date k + 1
ViewJourneys ==
  UNION { { [k \in 1..n |-> [date |-> k, segments |-> lists[k]]] :
              lists \in [1..n -> ViewSegmentLists] } : n \in 0..MaxViewEntries }

\* the hash the page is opened with: none, the date of an entry, or a date
\* of no entry
ViewHashes == { NoHash } \cup { << d >> : d \in 1..(MaxViewEntries + 1) }

\* An effect run React owes: the effect, the currentDateIndex and the
\* isInitialized of the render whose commit scheduled it, and what made that
\* render ("mount", the hash effect "init", "navigate", "scroll", "load").
EffectRun(name, index, initialized, cause) ==
  [name |-> name, index |-> index, initialized |-> initialized,
   cause |-> cause]

\* The effects of a commit that are followed here, in the order of their
\* useEffect calls, each run when one of its dependencies has changed: the
\* hash effect [entries, isInitialized], the content effect
\* [currentDateIndex, entries, loadedEntries], the trail effect
\* [currentDateIndex, entries], the scroll into view [isInitialized,
\* entries, currentDateIndex].  The effect that registers handleScroll
\* changes no state.  byIndex, byInit and byLoaded tell which of
\* currentDateIndex, isInitialized and loadedEntries the render changed.
CommitEffects(index, initialized, cause, byIndex, byInit, byLoaded) ==
  (IF byInit
     THEN << EffectRun("init", index, initialized, cause) >> ELSE << >>)
  \o (IF byIndex \/ byLoaded
        THEN << EffectRun("load", index, initialized, cause) >> ELSE << >>)
  \o (IF byIndex
        THEN << EffectRun("trail", index, initialized, cause) >> ELSE << >>)
  \o (IF byInit \/ byIndex
        THEN << EffectRun("scroll", index, initialized, cause) >> ELSE << >>)

\* the effects of the first commit: every effect runs
MountEffects == CommitEffects(0, FALSE, "mount", TRUE, TRUE, TRUE)

\* useState(entries): the entries, none with its MDXContent
NotLoaded(list) ==
  [k \in 1..Len(list) |-> [date |-> list[k].date, loaded |-> FALSE]]

\* the component is mounted: useState(0), useState(false), useState([]),
\* useState(entries), useRef(false)
InitView ==
  /\ BatchAtRest
  /\ FunctionsIdle
  /\ viewEntries \in ViewJourneys
  /\ locationHash \in ViewHashes
  /\ currentDateIndex = 0
  /\ isInitialized = FALSE
  /\ trailSegments = << >>
  /\ loadedEntries = NotLoaded(viewEntries)
  /\ loading = [k \in 1..Len(viewEntries) |-> 0]
  /\ effects = MountEffects
  /\ isScrollingProgrammatically = FALSE
  /\ resetTimers = << >>
  /\ scrollTimers = 0

\* entries.findIndex((e) => e.date === dateFromHash), -1 when none
RECURSIVE FindIndexFrom(_, _, _)
FindIndexFrom(list, date, k) ==
  IF k > Len(list) THEN -1
  ELSE IF list[k].date = date THEN k - 1
  ELSE FindIndexFrom(list, date, k + 1)

findIndex(list, date) == FindIndexFrom(list, date, 1)

\* the hash effect taking the first entry whatever the hash
HashIndex_Ignored(list, hash, index) == index

\* the index the hash effect sets, from the index index of its render
HashIndex(list, hash, index) ==
  IF hash = NoHash THEN index
  ELSE LET found == findIndex(list, hash[1])
       IN  IF found # -1 THEN found ELSE index

\* the effect of lines 345-358; it runs again once, isInitialized being one
\* of its dependencies, and then returns at once
RunInitEffect ==
  /\ effects # << >>
  /\ Head(effects).name = "init"
  /\ IF Head(effects).initialized
       THEN /\ effects' = Tail(effects)
            /\ UNCHANGED << currentDateIndex, isInitialized >>
       ELSE \E index \in { HashIndex(viewEntries, locationHash,
                                     Head(effects).index) } :
              /\ currentDateIndex' = index
              /\ isInitialized' = TRUE
              /\ effects' = Tail(effects)
                   \o CommitEffects(index, TRUE, "init",
                                    index # currentDateIndex, TRUE, FALSE)
  /\ UNCHANGED << batch, fInput, fOutput, viewEntries, trailSegments,
                  locationHash, isScrollingProgrammatically, resetTimers,
                  scrollTimers, loadedEntries, loading >>

\* loadMDXForEntry(k) goes past its first return (lines 362-367)
StartsLoad(index, k) ==
  /\ k >= 0
  /\ k < Len(viewEntries)
  /\ ~loadedEntries[k + 1].loaded

\* the effect of lines 360-390: loadMDXForEntry of the current entry and of
\* the two next to it, each up to its await import(...)
RunLoadEffect ==
  /\ effects # << >>
  /\ Head(effects).name = "load"
  /\ effects' = Tail(effects)
  /\ \E index \in { Head(effects).index } :
       loading' = [k \in 1..Len(loading) |->
                     IF /\ k - 1 \in { index, index - 1, index + 1 }
                        /\ StartsLoad(index, k - 1)
                       THEN loading[k] + 1 ELSE loading[k]]
  /\ UNCHANGED << batch, fInput, fOutput, viewEntries, currentDateIndex,
                  trailSegments, isInitialized, locationHash,
                  isScrollingProgrammatically, resetTimers, scrollTimers,
                  loadedEntries >>

\* entry.metadata.segments.forEach of buildTrail: from segment s on
RECURSIVE TrailOfEntry(_, _)
TrailOfEntry(entry, s) ==
  IF s > Len(entry.segments) THEN << >>
  ELSE LET segment == entry.segments[s]
       IN  (IF segment.polyline = << >> THEN << >>
            ELSE << [coordinates |-> trailCoordinates(segment.polyline),
                     mode |-> segment.mode,
                     from |-> segment.from,
                     to |-> segment.to,
                     date |-> entry.date] >>)
           \o TrailOfEntry(entry, s + 1)

\* buildTrail dropping what the entries before the current one carry
buildTrail_CurrentOnly(list, n, index) ==
  IF n > index THEN << >> ELSE TrailOfEntry(list[index + 1], 1)

\* buildTrail: for (let i = 0; i <= currentDateIndex; i++), from i = n on
RECURSIVE buildTrail(_, _, _)
buildTrail(list, n, index) ==
  IF n > index THEN << >>
  ELSE TrailOfEntry(list[n + 1], 1) \o buildTrail(list, n + 1, index)

\* window.history.replaceState(null, "", `${basePath}#${currentDate}`)
HashOf(list, index) == << list[index + 1].date >>

\* the effect of lines 392-436: the trail, then the hash of the address
RunTrailEffect ==
  /\ effects # << >>
  /\ Head(effects).name = "trail"
  /\ effects' = Tail(effects)
  /\ IF Len(viewEntries) = 0
       THEN UNCHANGED << trailSegments, locationHash >>
       ELSE \E trail \in { buildTrail(viewEntries, 0, Head(effects).index) } :
              /\ trailSegments' = trail
              /\ locationHash' = HashOf(viewEntries, Head(effects).index)
  /\ UNCHANGED << batch, fInput, fOutput, viewEntries, currentDateIndex,
                  isInitialized, isScrollingProgrammatically, resetTimers,
                  scrollTimers, loadedEntries, loading >>

\* the effect of lines 484-497 goes as far as its setTimeout: every entry
\* is rendered, so the element of the target date exists
SchedulesScroll(effect) ==
  effect.initialized /\ effect.index < Len(viewEntries)

\* the effect of lines 484-497
RunScrollEffect ==
  /\ effects # << >>
  /\ Head(effects).name = "scroll"
  /\ effects' = Tail(effects)
  /\ scrollTimers' = IF SchedulesScroll(Head(effects))
                       THEN scrollTimers + 1
                       ELSE scrollTimers
  /\ UNCHANGED << batch, fInput, fOutput, viewEntries, currentDateIndex,
                  trailSegments, isInitialized, locationHash,
                  isScrollingProgrammatically, resetTimers, loadedEntries,
                  loading >>

Max(a, b) == IF a > b THEN a ELSE b

Min(a, b) == IF a < b THEN a ELSE b

RECURSIVE SumOf(_, _)
SumOf(counts, k) == IF k > Len(counts) THEN 0 ELSE counts[k] + SumOf(counts, k + 1)

\* the viewer moves on to another entry only while the timers and the
\* imports it has pending leave room for more
RoomToMove ==
  /\ scrollTimers < MaxScrollTimers
  /\ SumOf(loading, 1) < MaxPendingLoads

\* newIndex of handleNavigate without the clamp
NewIndex_Unclamped(direction) ==
  IF direction = "prev" THEN currentDateIndex - 1 ELSE currentDateIndex + 1

\* newIndex of handleNavigate (lines 500-503)
NewIndex(direction) ==
  IF direction = "prev"
    THEN Max(0, currentDateIndex - 1)
    ELSE Min(Len(viewEntries) - 1, currentDateIndex + 1)

\* handleNavigate(direction); every entry is rendered, so the element of
\* the target date exists
Navigate(direction) ==
  /\ effects = << >>
  /\ Len(viewEntries) > 0
  /\ Len(resetTimers) < MaxResetTimers
  /\ RoomToMove
  /\ \E newIndex \in { NewIndex(direction) } :
       IF newIndex # currentDateIndex
         THEN /\ currentDateIndex' = newIndex
              /\ effects' = CommitEffects(newIndex, isInitialized, "navigate",
                                          TRUE, FALSE, FALSE)
              /\ isScrollingProgrammatically' = TRUE
              /\ resetTimers' = Append(resetTimers, ResetDelay)
         ELSE UNCHANGED << currentDateIndex, effects,
                           isScrollingProgrammatically, resetTimers >>
  /\ UNCHANGED << batch, fInput, fOutput, viewEntries, trailSegments,
                  isInitialized, locationHash, scrollTimers, loadedEntries,
                  loading >>

\* a click on Previous or on Next
handleNavigate == \E direction \in { "prev", "next" } : Navigate(direction)

\* if (isScrollingProgrammatically.current) return (line 440)
ScrollHeld == isScrollingProgrammatically

\* handleScroll, closestIndex being the entry nearest to the centre of the
\* scroll container
handleScroll ==
  /\ effects = << >>
  /\ Len(viewEntries) > 0
  /\ RoomToMove
  /\ \E closestIndex \in 0..(Len(viewEntries) - 1) :
       IF ~ScrollHeld /\ closestIndex # currentDateIndex
         THEN /\ currentDateIndex' = closestIndex
              /\ effects' = CommitEffects(closestIndex, isInitialized,
                                          "scroll", TRUE, FALSE, FALSE)
         ELSE UNCHANGED << currentDateIndex, effects >>
  /\ UNCHANGED << batch, fInput, fOutput, viewEntries, trailSegments,
                  isInitialized, locationHash, isScrollingProgrammatically,
                  resetTimers, scrollTimers, loadedEntries, loading >>

\* the callback of setTimeout(..., 1000) of handleNavigate, when it is due;
\* what a timer or a failed import does reads and writes nothing an effect
\* writes or reads, so it is followed with no effect pending only
ResetTimerFires ==
  /\ effects = << >>
  /\ resetTimers # << >>
  /\ Head(resetTimers) = 0
  /\ resetTimers' = Tail(resetTimers)
  /\ isScrollingProgrammatically' = FALSE
  /\ UNCHANGED << batch, fInput, fOutput, viewEntries, currentDateIndex,
                  trailSegments, isInitialized, locationHash, effects,
                  scrollTimers, loadedEntries, loading >>

\* the callback of setTimeout(..., 100): element.scrollIntoView; it moves
\* the scroll container only, and the scroll events that follow are
\* handleScroll
ScrollTimerFires ==
  /\ effects = << >>
  /\ scrollTimers > 0
  /\ scrollTimers' = scrollTimers - 1
  /\ UNCHANGED << batch, fInput, fOutput, viewEntries, currentDateIndex,
                  trailSegments, isInitialized, locationHash, effects,
                  isScrollingProgrammatically, resetTimers, loadedEntries,
                  loading >>

\* Time passes while a reset timer is pending, up to the time the first
\* of them is due or by half the delay of the reset, whichever is less;
\* the timers are in the order of their setTimeout.
Tick ==
  /\ effects = << >>
  /\ resetTimers # << >>
  /\ \E d \in { Head(resetTimers), ResetDelay \div 2 } :
       /\ d > 0
       /\ d <= Head(resetTimers)
       /\ resetTimers' = [k \in 1..Len(resetTimers) |-> resetTimers[k] - d]
  /\ UNCHANGED << batch, fInput, fOutput, viewEntries, currentDateIndex,
                  trailSegments, isInitialized, locationHash, effects,
                  isScrollingProgrammatically, scrollTimers, loadedEntries,
                  loading >>

\* setLoadedEntries putting the content in a list that forgot the others
WithContent_Alone(prev, k) ==
  [n \in 1..Len(prev) |-> [date |-> prev[n].date, loaded |-> n = k + 1]]

\* setLoadedEntries((prev) => ...): a copy of prev with the content of
\* entry k (lines 375-379)
WithContent(prev, k) == [prev EXCEPT ![k + 1].loaded = TRUE]

\* an import of loadMDXForEntry resolves: the content is stored
LoadCompletes ==
  /\ effects = << >>
  /\ \E k \in 0..(Len(loading) - 1) :
       /\ loading[k + 1] > 0
       /\ loading' = [loading EXCEPT ![k + 1] = @ - 1]
       /\ loadedEntries' = WithContent(loadedEntries, k)
       /\ effects' = CommitEffects(currentDateIndex, isInitialized, "load",
                                   FALSE, FALSE, TRUE)
  /\ UNCHANGED << batch, fInput, fOutput, viewEntries, currentDateIndex,
                  trailSegments, isInitialized, locationHash,
                  isScrollingProgrammatically, resetTimers, scrollTimers >>

\* an import of loadMDXForEntry rejects: the catch logs the error
LoadFails ==
  /\ effects = << >>
  /\ \E k \in 0..(Len(loading) - 1) :
       /\ loading[k + 1] > 0
       /\ loading' = [loading EXCEPT ![k + 1] = @ - 1]
  /\ UNCHANGED << batch, fInput, fOutput, viewEntries, currentDateIndex,
                  trailSegments, isInitialized, locationHash, effects,
                  isScrollingProgrammatically, resetTimers, scrollTimers,
                  loadedEntries >>

\* a run of an effect React owes
ViewEffect ==
  RunInitEffect \/ RunLoadEffect \/ RunTrailEffect \/ RunScrollEffect

NextView ==
  \/ RunInitEffect
  \/ RunLoadEffect
  \/ RunTrailEffect
  \/ RunScrollEffect
  \/ handleNavigate
  \/ handleScroll
  \/ ResetTimerFires
  \/ ScrollTimerFires
  \/ Tick
  \/ LoadCompletes
  \/ LoadFails

\* React runs every effect it has scheduled
SpecView == InitView /\ [][NextView]_vars /\ WF_vars(ViewEffect)

\* the segments of entries 0..k that carry a polyline, as pairs of the
\* index of the entry and the place in its segments list
CarryingPolyline(k) ==
  UNION { { << e, s >> : s \in { t \in 1..Len(viewEntries[e + 1].segments) :
              viewEntries[e + 1].segments[t].polyline # << >> } } :
          e \in 0..k }

\* entry order, then segment order
ComesBefore(p, q) == p[1] < q[1] \/ (p[1] = q[1] /\ p[2] < q[2])

\* the place of the pair p among the pairs of entries 0..k
PlaceOf(p, k) ==
  Cardinality({ q \in CarryingPolyline(k) : ComesBefore(q, p) }) + 1

\* the segment of the pair p as the map draws it
DrawnSegment(p) ==
  LET entry == viewEntries[p[1] + 1]
      segment == entry.segments[p[2]]
  IN  [coordinates |-> trailCoordinates(segment.polyline),
       mode |-> segment.mode, from |-> segment.from, to |-> segment.to,
       date |-> entry.date]

TrailSynchronized(k) ==
  /\ Len(trailSegments) = Cardinality(CarryingPolyline(k))
  /\ \A p \in CarryingPolyline(k) :
       trailSegments[PlaceOf(p, k)] = DrawnSegment(p)
  /\ \A t \in 1..Len(trailSegments) :
       \A e \in 1..Len(viewEntries) :
         trailSegments[t].date = viewEntries[e].date => e - 1 <= k

\* no effect is owed, and the trail is the one of the current entry
TrailSettled ==
  /\ effects = << >>
  /\ Len(viewEntries) > 0 => TrailSynchronized(currentDateIndex)

\* C13: after the current index becomes k (by scroll, prev/next or URL
\* hash), the trail passed to the map equals, in entry order then segment
\* order, the decoded segments that carry a polyline of entries 0..k, and
\* contains no segment of any entry after k: whenever no effect is owed the
\* trail is that one, and every effect owed leads to such a state.
C13_TrailSynchronized ==
  /\ [](effects = << >> => TrailSettled)
  /\ (effects # << >>) ~> TrailSettled

\* after a click the second of three entries is the current one; the trail
\* holds the two routes of the first entry and the route of the second,
\* the definition without polyline of the first entry is left out, and the
\* third entry carries a route that is not drawn
C13_Witness ==
  /\ effects = << >>
  /\ resetTimers # << >>
  /\ Len(viewEntries) = 3
  /\ currentDateIndex = 1
  /\ Len(viewEntries[1].segments) = 3
  /\ viewEntries[1].segments[2].polyline = << >>
  /\ Len(viewEntries[3].segments) = 1
  /\ viewEntries[3].segments[1].polyline # << >>
  /\ Len(trailSegments) = 3
  /\ trailSegments[2].date = viewEntries[1].date
  /\ trailSegments[3].date = viewEntries[2].date

\* the index is one of an entry
IndexInRange == currentDateIndex \in 0..(Len(viewEntries) - 1)

\* the hash effect of the first render runs with a hash of no entry
InitEffectOfNoEntry ==
  /\ RunInitEffect
  /\ ~Head(effects).initialized
  /\ locationHash = NoHash \/ findIndex(viewEntries, locationHash[1]) = -1

\* C25: with a non-empty entry list, whatever the clicks on Previous and
\* Next, the scroll events and the hash the page is opened with, the index
\* stays within 0..entries.length-1; Previous at index 0 and Next at the
\* last index leave it unchanged, and a hash that matches no entry date
\* leaves it at 0.
C25_IndexStaysInRange ==
  /\ [](Len(viewEntries) > 0 => IndexInRange)
  /\ [][Navigate("prev") /\ currentDateIndex = 0
          => currentDateIndex' = 0]_vars
  /\ [][Navigate("next") /\ currentDateIndex = Len(viewEntries) - 1
          => currentDateIndex' = currentDateIndex]_vars
  /\ [][InitEffectOfNoEntry => currentDateIndex' = 0]_vars

\* two clicks on Next have taken the viewer of three entries, opened with
\* no hash of an entry, to the last one, where Next changes nothing
C25_Witness ==
  /\ Len(viewEntries) = 3
  /\ isInitialized
  /\ effects = << >>
  /\ currentDateIndex = 2
  /\ Len(resetTimers) = 2
  /\ isScrollingProgrammatically

\* less than ResetDelay has passed since the last click on Previous or Next
\* that started a scroll: its timer, the last one set, is pending and not
\* due yet
NavigatedWithinDelay ==
  /\ resetTimers # << >>
  /\ resetTimers[Len(resetTimers)] > 0

\* C26: a scroll event never changes the index during the 1000 ms that
\* follow the most recent click on Previous or Next that started a scroll,
\* the timer of an earlier click firing in that time included.
C26_ScrollHeldAfterNavigation ==
  [][handleScroll /\ NavigatedWithinDelay
       => currentDateIndex' = currentDateIndex]_vars

\* a scroll into view is scheduled
SchedulesScrollStep == scrollTimers' > scrollTimers

\* C27: the scroll into view of the current entry is scheduled on mount
\* after initialization only; a change of the index by a scroll event or
\* by Previous or Next schedules no other one.
C27_ScrollScheduledOnMountOnly ==
  [][SchedulesScrollStep
       => Head(effects).cause \notin { "navigate", "scroll" }]_vars

\* the date of entry k as a hash
DateHash(k) == << viewEntries[k + 1].date >>

\* C28: whenever the current index is k and no effect is owed the hash is
\* the date of entry k; the hash the page was opened with stays until the
\* hash effect has read it, and that effect, opened with the date of
\* entry k, sets the index to k.
C28_HashRoundTrip ==
  /\ [](effects = << >> /\ Len(viewEntries) > 0
          => locationHash = DateHash(currentDateIndex))
  /\ [][~isInitialized => locationHash' = locationHash]_vars
  /\ [][~isInitialized /\ isInitialized'
          => \A k \in 0..(Len(viewEntries) - 1) :
               locationHash = DateHash(k) => currentDateIndex' = k]_vars

\* the page was opened with the date of the last of three entries: the hash
\* effect has set the index to 2, and the trail effect of the first render
\* has since written the date of entry 0
C28_Witness ==
  /\ Len(viewEntries) = 3
  /\ isInitialized
  /\ currentDateIndex = 2
  /\ effects # << >>
  /\ locationHash = DateHash(0)

\* loadedEntries has the dates of entries, in their order
SameDates ==
  /\ Len(loadedEntries) = Len(viewEntries)
  /\ \A k \in 1..Len(viewEntries) : loadedEntries[k].date = viewEntries[k].date

\* no content stored is removed
ContentKept ==
  \A k \in 1..Len(loadedEntries) :
    loadedEntries[k].loaded =>
      k <= Len(loadedEntries') /\ loadedEntries'[k].loaded

\* an import starts only for the index of the render and the two next to
\* it, within the entries
LoadsNearIndex ==
  \A k \in 1..Len(loading) :
    loading'[k] > loading[k] =>
      /\ effects # << >>
      /\ k - 1 \in { Head(effects).index - 1, Head(effects).index,
                     Head(effects).index + 1 }
      /\ k - 1 \in 0..(Len(viewEntries) - 1)

\* C29: whatever the order in which the imports end, a content stored in
\* loadedEntries is never removed, loadedEntries keeps the length, the
\* dates and the order of entries, and an import is started only for the
\* current index and its two neighbours within 0..entries.length-1.
C29_LoadingMonotonic ==
  /\ []SameDates
  /\ [][ContentKept]_vars
  /\ [][LoadsNearIndex]_vars

\* the content of entry 1 and then that of entry 0 have been stored, the
\* import of entry 1 having ended first, and entry 2 has none
C29_Witness ==
  /\ Len(viewEntries) = 3
  /\ currentDateIndex = 0
  /\ loadedEntries[1].loaded
  /\ loadedEntries[2].loaded
  /\ ~loadedEntries[3].loaded
  /\ loading[1] > 0

----------------------------------------------------------------------------
(* Properties of the batch *)

RoadFailure(f) ==
  f.called /\ f.requested /\ f.outcome \in {"notOk", "throws"}

\* C1: fetchRoute always returns a path and never lets an error out; for a
\* road mode, when the request throws or the response is not an 'Ok' with
\* coordinates, the path is generateCurvedPath(start, end) between the same
\* two endpoints.
C1_FetchRouteFallsBack ==
  /\ pc # "failed"
  /\ lastFetch.called =>
       /\ ~lastFetch.threw
       /\ Len(lastFetch.result) >= 2
       /\ RoadFailure(lastFetch) =>
            /\ lastFetch.mode \notin CurvedModes
            /\ lastFetch.result =
                 generateCurvedPath(lastFetch.start, lastFetch.end,
                                    DefaultSegments)
            /\ lastFetch.result[1] = PathPoint(lastFetch.start)
            /\ lastFetch.result[Len(lastFetch.result)]
                 = PathPoint(lastFetch.end)

\* a request of a car segment has thrown and the batch went on to its end
C1_Witness ==
  /\ pc = "done"
  /\ lastFetch.called
  /\ lastFetch.mode = "car"
  /\ lastFetch.outcome = "throws"

\* C2: for a segment of a non-road mode (ferry, direct, flight) no request
\* is sent to the routing service: fetchRoute returns the synthetic curve
\* directly.
C2_NoRequestForCurvedModes ==
  /\ \A n \in 1..Len(requests) :
       requests[n].mode \notin {"ferry", "flight", "direct"}
  /\ (lastFetch.called /\ lastFetch.mode \in {"ferry", "flight", "direct"}) =>
       /\ ~lastFetch.requested
       /\ lastFetch.result =
            generateCurvedPath(lastFetch.start, lastFetch.end,
                               DefaultSegments)

\* a ferry segment has been given its route
C2_Witness ==
  /\ lastFetch.called
  /\ lastFetch.mode = "ferry"
  /\ \E k \in 1..Len(produced) : \E n \in 1..Len(produced[k]) :
       produced[k][n].record.mode = "ferry"

\* the requests sent in this run for segment jj of entry k
RequestsFor(k, jj) ==
  { n \in 1..Len(requests) : requests[n].i = k /\ requests[n].j = jj }

\* the entries of this run that were reached with their route file present
CachedEntries ==
  { reached[n].entry : n \in { m \in 1..Len(reached) : reached[m].existed } }

\* segment jj of entry k resolves to two places with different coordinates
Routable(k, jj) ==
  LET def == allEntries[k + 1].segments[jj + 1]
      from == ResolveCall(allEntries, k, def.from)
      to == ResolveCall(allEntries, k, def.to)
  IN  /\ from.ok
      /\ to.ok
      /\ ~(from.loc.lat = to.loc.lat /\ from.loc.lng = to.loc.lng)

\* segment jj of entry k is behind the batch in this run
SegmentDone(k, jj) ==
  \/ pc = "done"
  \/ k < i
  \/ k = i /\ pc = "write"
  \/ k = i /\ pc = "segments" /\ jj < j

\* C3: in one run each road-mode segment that is resolved and not skipped
\* causes exactly one routing request; a failed request is never retried,
\* the fallback curve being the one step that follows the failure.
C3_OneRequestPerSegment ==
  /\ \A n \in 1..Len(requests) :
       Cardinality(RequestsFor(requests[n].i, requests[n].j)) = 1
  /\ pc \notin {"load", "resolve"} =>
       \A k \in 0..(Len(allEntries) - 1) :
         \A jj \in 0..(Len(allEntries[k + 1].segments) - 1) :
           ( /\ k \notin CachedEntries
             /\ SegmentDone(k, jj)
             /\ allEntries[k + 1].segments[jj + 1].mode \in {"car", "foot", "train"}
             /\ Routable(k, jj) )
           => /\ Cardinality(RequestsFor(k, jj)) = 1
              /\ Cardinality({ n \in 1..Len(produced[k + 1]) :
                               produced[k + 1][n].j = jj }) = 1
  /\ RoadFailure(lastFetch) =>
       /\ Cardinality(RequestsFor(lastFetch.i, lastFetch.j)) = 1
       /\ pending.active => << i, j >> # << lastFetch.i, lastFetch.j >>
       /\ produced[lastFetch.i + 1][Len(produced[lastFetch.i + 1])].record.polyline
            = polylineEncode(latLngRoute(
                generateCurvedPath(lastFetch.start, lastFetch.end,
                                   DefaultSegments)))

\* a run is over in which a road request failed
C3_Witness ==
  /\ pc = "done"
  /\ RoadFailure(lastFetch)
  /\ Len(requests) >= 1

\* C4: an entry whose route file <date>.json exists when the entry is
\* reached is skipped: no reference of it is resolved, no request is sent
\* for it, the file keeps its content, and the entry is counted as cached.
C4_CachedEntrySkipped ==
  /\ \A n \in 1..Len(reached) :
       reached[n].existed =>
         LET k == reached[n].entry
             date == allEntries[k + 1].date
         IN  /\ \A r \in resolved : r[1] # k
             /\ \A m \in 1..Len(requests) : requests[m].i # k
             /\ produced[k + 1] = << >>
             /\ routeFiles[date].exists
             /\ routeFiles[date].content = reached[n].content
             /\ i > k \/ pc = "done"
  /\ pc \in {"loop", "segments", "legacy", "fetching", "write", "done"} =>
       cached = Cardinality(CachedEntries)

\* a later run is over in which an entry was reached with its file present
C4_Witness ==
  /\ pc = "done"
  /\ run = 2
  /\ \E n \in 1..Len(reached) :
       reached[n].existed /\ reached[n].content # << >>

\* the legs entry k defines that resolve to two different places, as
\* <<mode, from label, to label>>, in the order of the definitions
RECURSIVE DefinedLegs(_, _)
DefinedLegs(k, jj) ==
  LET entry == allEntries[k + 1]
  IN  IF jj >= Len(entry.segments) THEN << >>
      ELSE LET def == entry.segments[jj + 1]
               from == ResolveCall(allEntries, k, def.from)
               to == ResolveCall(allEntries, k, def.to)
           IN  (IF Routable(k, jj)
                  THEN << << def.mode, LocationLabel(from.loc),
                             LocationLabel(to.loc) >> >>
                  ELSE << >>)
               \o DefinedLegs(k, jj + 1)

\* the legs the route file of entry k holds
StoredLegs(k) ==
  LET content == routeFiles[allEntries[k + 1].date].content
  IN  [n \in 1..Len(content) |->
        << content[n].mode, content[n].from, content[n].to >>]

\* C5: when generate-routes is run after the segment definitions of an
\* entry have been added or modified, the routes stored for that entry
\* after the run reflect the entry's current segment definitions.
C5_RerunReflectsEdits ==
  pc = "done" =>
    \A m \in modified :
      m.rerun => StoredLegs(m.entry) = DefinedLegs(m.entry, 0)

\* a step that ends the processing of an entry that was not cached
EndsEntry == i' = i + 1 /\ pc \in {"write", "legacy"}

RecordsOf(log) == [n \in 1..Len(log) |-> log[n].record]

\* C10: for an entry that is not cached the route file is written exactly
\* when at least one segment was produced for it in this run, and then holds
\* exactly the produced segments in the order of their definitions; an entry
\* that produces no segment gets no file.
C10_FileHoldsProducedSegments ==
  [][EndsEntry =>
       LET date == allEntries[i + 1].date
           log == produced[i + 1]
       IN  /\ ~routeFiles[date].exists
           /\ \A n \in 1..(Len(log) - 1) : log[n].j < log[n + 1].j
           /\ IF Len(log) > 0
                THEN routeFiles'[date] =
                       [exists |-> TRUE, content |-> RecordsOf(log)]
                ELSE ~routeFiles'[date].exists]_vars

\* a route file with two segments has just been written, and an entry that
\* produced nothing was passed without a file
C10_Witness ==
  /\ pc = "loop"
  /\ i = 2
  /\ Len(produced[2]) = 2
  /\ routeFiles[allEntries[2].date].content = RecordsOf(produced[2])
  /\ produced[1] = << >>
  /\ ~routeFiles[allEntries[1].date].exists

\* the batch is through with entry k in this run
EntryOver(k) == k < i \/ pc = "done"

\* entry k has the legacy transportMode field and no segments list
LegacyEntry(k) ==
  ~allEntries[k + 1].hasSegments /\ allEntries[k + 1].transportMode # ""

\* the paths fetchRoute can return from start to end in mode `mode`
RoutesOf(start, end, mode) ==
  { generateCurvedPath(start, end, DefaultSegments) }
  \cup (IF mode \in CurvedModes THEN {} ELSE ServiceRoutes(start, end))

\* C14: for an entry with a transportMode and no segments list that the
\* batch processes (its route file not being there already), when the
\* preceding entry's primary coordinates differ from its own the batch
\* produces exactly one route segment, from the preceding entry's primary
\* location to the entry's primary location in that mode, and stores it;
\* for the first entry it produces none.
C14_LegacySingleLeg ==
  pc \notin {"load", "resolve"} =>
    \A k \in 0..(Len(allEntries) - 1) :
      (LegacyEntry(k) /\ k \notin CachedEntries) =>
        LET entry == allEntries[k + 1]
            log == produced[k + 1]
        IN  /\ Len(log) <= 1
            /\ k = 0 =>
                 /\ log = << >>
                 /\ RequestsFor(0, 0) = {}
                 /\ EntryOver(0) => ~routeFiles[entry.date].exists
            /\ ( /\ k > 0
                 /\ EntryOver(k)
                 /\ ~( /\ allEntries[k].location.lat = entry.location.lat
                       /\ allEntries[k].location.lng = entry.location.lng ) )
               => /\ Len(log) = 1
                  /\ log[1].record.mode = entry.transportMode
                  /\ log[1].record.from = allEntries[k].location.name
                  /\ log[1].record.to = entry.location.name
                  /\ \E route \in RoutesOf(allEntries[k].location,
                                     entry.location, entry.transportMode) :
                       /\ route[1] = PathPoint(allEntries[k].location)
                       /\ route[Len(route)] = PathPoint(entry.location)
                       /\ log[1].record.polyline
                            = polylineEncode(latLngRoute(route))
                  /\ routeFiles[entry.date].content = << log[1].record >>

\* a first run is over in which both days carried a transportMode: the
\* first produced nothing, the second one leg from A to B
C14_Witness ==
  /\ pc = "done"
  /\ run = 1
  /\ Len(allEntries) = 2
  /\ LegacyEntry(0)
  /\ LegacyEntry(1)
  /\ produced[1] = << >>
  /\ Len(produced[2]) = 1
  /\ produced[2][1].record.from = Name_A
  /\ produced[2][1].record.to = Name_B

\* the file the documentation names as the place of all routes
GeneratedRoutesFile == << "lib", "generated-routes.json" >>

\* The files the batch has written: fs.writeFileSync is called at line 308
\* only, with routeFilePath.
WrittenFiles ==
  { routeFilePath(d) : d \in { e \in Dates : routeFiles[e].exists } }

\* C15: after the generate-routes command completes, the routes of all
\* entries are saved in the single file lib/generated-routes.json.
C15_SingleRoutesFile ==
  (pc = "done" /\ \E k \in 1..Len(produced) : produced[k] # << >>) =>
    WrittenFiles = { GeneratedRoutesFile }

\* the second pass has visited the entries 0, 1, 2, ... in this order, each
\* once, up to the one it stands at
VisitedInOrder ==
  /\ \A n \in 1..Len(reached) : reached[n].entry = n - 1
  /\ Len(reached) <= Len(allEntries)
  /\ pc \in {"segments", "legacy", "fetching", "write"} =>
       Len(reached) = i + 1
  /\ pc = "loop" => Len(reached) = i
  /\ pc = "done" =>
       /\ Len(reached) = Len(entryFiles)
       /\ Len(allEntries) = Len(entryFiles)

\* the entries loaded are the entry files of this run in the order of
\* their names (an edit made after the run shows in the next run)
LoadedInOrder ==
  (\A m \in modified : m.rerun) =>
    \A k \in 1..Len(allEntries) : allEntries[k] = parseMDX(entryFiles[k])

\* C16: for any set of well-formed entry files and any outcome of each
\* routing request (success, error response, thrown exception) the batch
\* visits every loaded entry exactly once, in ascending file name order,
\* never revisits an entry, and terminates.
C16_VisitsEachEntryOnceAndEnds ==
  /\ [](VisitedInOrder /\ LoadedInOrder /\ pc # "failed")
  /\ (pc = "load") ~> (pc = "done")

\* a run is over that visited two entries, a request of the second having
\* thrown
C16_Witness ==
  /\ pc = "done"
  /\ Len(reached) = 2
  /\ reached[1].entry = 0
  /\ reached[2].entry = 1
  /\ \E n \in 1..Len(requests) : requests[n].i = 1
  /\ lastFetch.outcome = "throws"

\* C19: the batch is idempotent over unchanged inputs: a run started on
\* the same entry files and the route files left by the run before sends no
\* routing request and creates or modifies no route file.
C19_RerunIdempotent ==
  [][(run' = 2 /\ modified' = {}) =>
       /\ requests' = << >>
       /\ routeFiles' = routeFiles
       /\ generated' = 0
       /\ \A k \in 1..Len(produced') : produced'[k] = << >>]_vars

\* a second run over unchanged entry files is over: one entry was skipped on
\* its route file and another, which has none, was gone through again
C19_Witness ==
  /\ pc = "done"
  /\ run = 2
  /\ modified = {}
  /\ cached = 1
  /\ \E n \in 1..Len(reached) : reached[n].existed
  /\ \E n \in 1..Len(reached) :
       ~reached[n].existed /\ allEntries[reached[n].entry + 1].hasSegments

----------------------------------------------------------------------------
(* Properties of parseLocationRef *)

\* the locations of an entry that carry the name ref
NamedIn(entry, ref) ==
  { l \in {entry.location} : l.name = ref }
  \cup { entry.pois[n] : n \in { m \in 1..Len(entry.pois) :
                                   entry.pois[m].name = ref } }

\* the names that are neither a keyword nor read as a coordinate pair
PlainNames == {Name_A, Name_B}

CurrentOf(input) == input.entries[input.i + 1]

PreviousOf(input) == input.entries[input.i]

\* C6 as stated: in a segment of entry i, "current" resolves to the primary
\* location of entry i and "previous" to the primary location of entry i-1.
C6_KeywordsAsStated ==
  rOutput.called =>
    /\ rInput.ref = Keyword_current =>
         rOutput.ok /\ rOutput.loc = CurrentOf(rInput).location
    /\ (rInput.ref = Keyword_previous /\ rInput.i > 0) =>
         rOutput.ok /\ rOutput.loc = PreviousOf(rInput).location

\* C6 amended: "current" resolves to the primary location of entry i, and
\* "previous" to the primary location of entry i-1 unless the primary
\* location of entry i is itself named "previous", which then wins.
C6_Keywords ==
  rOutput.called =>
    /\ rInput.ref = Keyword_current =>
         rOutput.ok /\ rOutput.loc = CurrentOf(rInput).location
    /\ (rInput.ref = Keyword_previous /\ rInput.i > 0) =>
         /\ rOutput.ok
         /\ rOutput.loc =
              IF CurrentOf(rInput).location.name = Keyword_previous
                THEN CurrentOf(rInput).location
                ELSE PreviousOf(rInput).location

\* "previous" was resolved in an entry that has a different predecessor
C6_Witness ==
  /\ rOutput.called
  /\ rInput.ref = Keyword_previous
  /\ rInput.i > 0
  /\ CurrentOf(rInput).location.name # Keyword_previous
  /\ PreviousOf(rInput).location # CurrentOf(rInput).location
  /\ rOutput.loc = PreviousOf(rInput).location

\* C7: a from/to value that is the exact name of a primary location or point
\* of interest of any entry of the journal, earlier or later than the entry
\* being processed, resolves to that location.
C7_NameOfAnyEntry ==
  ( /\ rOutput.called
    /\ rInput.ref \in PlainNames
    /\ \E k \in 1..Len(rInput.entries) :
         NamedIn(rInput.entries[k], rInput.ref) # {} )
  => /\ rOutput.ok
     /\ \E k \in 1..Len(rInput.entries) :
          rOutput.loc \in NamedIn(rInput.entries[k], rInput.ref)

\* the entries at or before the current one with a location named ref
MatchingEntries(input) ==
  { k \in 1..(input.i + 1) : NamedIn(input.entries[k], input.ref) # {} }

LatestMatch(input) ==
  CHOOSE k \in MatchingEntries(input) :
    \A m \in MatchingEntries(input) : m <= k

\* C8 as stated: when a name matches locations in several entries at or
\* before the entry being processed, the resolver returns the match of the
\* latest such entry.
C8_LatestAsStated ==
  ( /\ rOutput.called
    /\ rInput.ref \in PlainNames
    /\ Cardinality(MatchingEntries(rInput)) >= 2 )
  => /\ rOutput.ok
     /\ rOutput.loc \in NamedIn(rInput.entries[LatestMatch(rInput)], rInput.ref)

\* the name is that of the previous entry's primary location and not that
\* of the current entry's
PreviousPrimaryWins(input) ==
  /\ input.i > 0
  /\ PreviousOf(input).location.name = input.ref
  /\ CurrentOf(input).location.name # input.ref

\* C8 amended: when a name that is neither a keyword nor a coordinate pair
\* matches locations in several entries at or before the entry being
\* processed, the resolver returns a match of the latest such entry, except
\* that the previous entry's primary location, when it carries the name and
\* the current primary location does not, is returned before any point of
\* interest of the current entry.
C8_Latest ==
  ( /\ rOutput.called
    /\ rInput.ref \in PlainNames
    /\ Cardinality(MatchingEntries(rInput)) >= 2 )
  => /\ rOutput.ok
     /\ IF PreviousPrimaryWins(rInput)
          THEN rOutput.loc = PreviousOf(rInput).location
          ELSE rOutput.loc
                 \in NamedIn(rInput.entries[LatestMatch(rInput)], rInput.ref)

\* the name was found by the backward search in the later of two earlier
\* entries that carry it
C8_Witness ==
  /\ rOutput.called
  /\ rInput.ref = Name_A
  /\ rInput.i = 2
  /\ MatchingEntries(rInput) = {1, 2}
  /\ rInput.entries[2].location.name # Name_A
  /\ rOutput.loc \in NamedIn(rInput.entries[2], Name_A)
  /\ rOutput.loc \notin NamedIn(rInput.entries[1], Name_A)

\* the references that read as a coordinate pair
CoordinateRefs == {Name_coords, Ref_spaced, Ref_fraction, Ref_negative}

\* the pair a coordinate reference writes: 1 and 2; 51.2294 and 2.9267;
\* -1.5 and -2
WrittenPair(ref) ==
  CASE ref \in {Name_coords, Ref_spaced} ->
         [lat |-> Finite(1), lng |-> Finite(2)]
    [] ref = Ref_fraction ->
         [lat |-> Decimal(512294, 4), lng |-> Decimal(29267, 4)]
    [] ref = Ref_negative ->
         [lat |-> Decimal(-15, 1), lng |-> Finite(-2)]

\* C9: a reference of the form "lat,lng", with or without whitespace after
\* the comma, resolves to exactly that pair, the first number as latitude
\* and the second as longitude, whatever the entries hold, and it does so
\* before any keyword or name is looked at.
C9_CoordinatesFirst ==
  (rOutput.called /\ rInput.ref \in CoordinateRefs) =>
    /\ rOutput.ok
    /\ rOutput.loc = [lat |-> WrittenPair(rInput.ref).lat,
                      lng |-> WrittenPair(rInput.ref).lng,
                      name |-> NoName]

\* "1,2" was resolved in an entry whose primary location and one of whose
\* points of interest carry that name, and to neither of them
C9_Witness ==
  /\ rOutput.called
  /\ rInput.ref = Name_coords
  /\ CurrentOf(rInput).location.name = Name_coords
  /\ FindPoi(CurrentOf(rInput).pois, Name_coords) # 0
  /\ rOutput.loc \notin NamedIn(CurrentOf(rInput), Name_coords)
  /\ rOutput.loc.lat = Finite(1)
  /\ rOutput.loc.lng = Finite(2)

----------------------------------------------------------------------------
(* Properties of the batch over the two-day journals *)

\* the records the routes directory holds
PersistedRecords ==
  UNION { { routeFiles[d].content[n] : n \in 1..Len(routeFiles[d].content) } :
          d \in Dates }

\* C11: every route segment record persisted by the batch has a mode that
\* is one of the fixed enumeration train, car, foot, ferry, direct.
C11_PersistedModesInEnumeration ==
  \A record \in PersistedRecords : record.mode \in TransportMode

\* segment jj of entry k resolves to two places of the same coordinates
SameEnds(k, jj) ==
  LET def == allEntries[k + 1].segments[jj + 1]
      from == ResolveCall(allEntries, k, def.from)
      to == ResolveCall(allEntries, k, def.to)
  IN  from.ok /\ to.ok /\ from.loc.lat = to.loc.lat /\ from.loc.lng = to.loc.lng

\* the records produced in this run for segment jj of entry k
ProducedFor(k, jj) ==
  { n \in 1..Len(produced[k + 1]) : produced[k + 1][n].j = jj }

\* C20: a segment whose resolved start and end have equal latitude and equal
\* longitude is skipped, with no routing request and no record, while the
\* later segments of the entry are still processed; a segment whose ends
\* differ in coordinates is not skipped, whatever the names of its ends.
\* The legacy leg between two days at the same coordinates is skipped too.
C20_SameCoordinatesSkipped ==
  pc \notin {"load", "resolve"} =>
    \A k \in 0..(Len(allEntries) - 1) :
      k \notin CachedEntries =>
        LET entry == allEntries[k + 1]
        IN  /\ \A jj \in 0..(Len(entry.segments) - 1) :
                 /\ SameEnds(k, jj) =>
                      RequestsFor(k, jj) = {} /\ ProducedFor(k, jj) = {}
                 /\ (Routable(k, jj) /\ SegmentDone(k, jj)) =>
                      Cardinality(ProducedFor(k, jj)) = 1
                 /\ EntryOver(k) => << k, jj >> \in resolved
            /\ ( /\ ~entry.hasSegments
                 /\ entry.transportMode # ""
                 /\ k > 0
                 /\ allEntries[k].location.lat = entry.location.lat
                 /\ allEntries[k].location.lng = entry.location.lng )
               => /\ RequestsFor(k, 0) = {}
                  /\ produced[k + 1] = << >>
                  /\ EntryOver(k) => ~routeFiles[entry.date].exists

\* a run is over in which the first leg of the second day joined two places
\* of different names at the same coordinates and was skipped, and the ferry
\* leg after it was stored
C20_Witness ==
  /\ pc = "done"
  /\ run = 1
  /\ Len(allEntries[2].segments) = 2
  /\ allEntries[1].location.name # allEntries[2].location.name
  /\ SameEnds(1, 0)
  /\ Len(produced[2]) = 1
  /\ produced[2][1].j = 1
  /\ produced[2][1].record.mode = "ferry"
  /\ Len(routeFiles[2].content) = 1

----------------------------------------------------------------------------
(* Errors of the batch *)

\* a reference of segment jj of entry k cannot be resolved
Unresolvable(k, jj) ==
  LET def == allEntries[k + 1].segments[jj + 1]
  IN  \/ ~ResolveCall(allEntries, k, def.from).ok
      \/ ~ResolveCall(allEntries, k, def.to).ok

\* C21: when the from or to reference of a segment cannot be resolved, the
\* error is confined to that segment: no routing request is sent and no
\* record is stored for it, and the remaining segments of the entry and all
\* later entries are still processed.
C21_ErrorConfinedToSegment ==
  pc \notin {"load", "resolve"} =>
    \A k \in 0..(Len(allEntries) - 1) :
      \A jj \in 0..(Len(allEntries[k + 1].segments) - 1) :
        (k \notin CachedEntries /\ Unresolvable(k, jj)) =>
          /\ RequestsFor(k, jj) = {}
          /\ ProducedFor(k, jj) = {}
          /\ EntryOver(k) =>
               \A n \in 1..Len(routeFiles[allEntries[k + 1].date].content) :
                 routeFiles[allEntries[k + 1].date].content[n]
                   \in { produced[k + 1][m].record : m \in 1..Len(produced[k + 1]) }
          /\ \A later \in (jj + 1)..(Len(allEntries[k + 1].segments) - 1) :
               /\ EntryOver(k) => << k, later >> \in resolved
               /\ (Routable(k, later) /\ SegmentDone(k, later)) =>
                    Cardinality(ProducedFor(k, later)) = 1
          /\ pc = "done" =>
               \A after \in (k + 1)..(Len(allEntries) - 1) :
                 /\ \E n \in 1..Len(reached) : reached[n].entry = after
                 /\ after \notin CachedEntries =>
                      \A jl \in 0..(Len(allEntries[after + 1].segments) - 1) :
                        /\ << after, jl >> \in resolved
                        /\ Routable(after, jl) =>
                             Cardinality(ProducedFor(after, jl)) = 1

\* a run is over in which the first leg of the first day named the previous
\* day and could not be resolved, the ferry leg after it was stored, and the
\* car leg of the second day was stored too
C21_Witness ==
  /\ pc = "done"
  /\ run = 1
  /\ Len(allEntries) = 2
  /\ Len(allEntries[1].segments) = 2
  /\ Unresolvable(0, 0)
  /\ Len(produced[1]) = 1
  /\ produced[1][1].j = 1
  /\ Len(routeFiles[1].content) = 1
  /\ Len(allEntries[2].segments) >= 1
  /\ Routable(1, 0)
  /\ Len(produced[2]) >= 1

\* an entry file lacks a delimiter line
SomeFileInvalid ==
  \E k \in 1..Len(entryFiles) :
    Cardinality({ n \in 1..Len(entryFiles[k].layout) :
                    entryFiles[k].layout[n] = "---" }) < 2

\* C22: if any entry file lacks the two '---' frontmatter delimiter lines,
\* loading throws 'Invalid MDX format' during the first pass and the batch
\* ends without sending any routing request or writing any route file, for
\* any entry.
C22_InvalidFormatEndsBatch ==
  SomeFileInvalid =>
    /\ pc \in {"load", "failed"}
    /\ requests = << >>
    /\ resolved = {}
    /\ reached = << >>
    /\ \A d \in Dates : ~routeFiles[d].exists
    /\ generated = 0
    /\ pc = "failed" =>
         /\ Len(allEntries) < Len(entryFiles)
         /\ \A k \in 1..Len(allEntries) :
              Cardinality({ n \in 1..Len(entryFiles[k].layout) :
                              entryFiles[k].layout[n] = "---" }) >= 2

\* the batch has ended on the second file, which has one delimiter line,
\* after loading the first, whose car or ferry leg was never looked at
C22_Witness ==
  /\ pc = "failed"
  /\ Len(entryFiles) = 2
  /\ Len(allEntries) = 1
  /\ entryFiles[1].layout = PlainLayout
  /\ entryFiles[1].hasSegments
  /\ entryFiles[1].segments[1].mode = "ferry"
  /\ entryFiles[2].layout = << "---", "text" >>
  /\ requests = << >>

\* C23: route files are keyed by the frontmatter date, not by the filename:
\* when two entry files carry the same date value and the earlier one (in
\* filename order) wrote a route file, the later one is treated as cached
\* in the same run and its own segments are never generated or stored.
C23_SameDateTakenAsCached ==
  pc \notin {"load", "resolve", "failed"} =>
    \A k1 \in 0..(Len(allEntries) - 1) : \A k2 \in (k1 + 1)..(Len(allEntries) - 1) :
      ( /\ allEntries[k1 + 1].date = allEntries[k2 + 1].date
        /\ k1 \notin CachedEntries
        /\ EntryOver(k1)
        /\ produced[k1 + 1] # << >> )
      => LET date == allEntries[k1 + 1].date
         IN  /\ routeFiles[date].exists
             /\ routeFiles[date].content = RecordsOf(produced[k1 + 1])
             /\ \A r \in resolved : r[1] # k2
             /\ \A jj \in 0..MaxSegments : RequestsFor(k2, jj) = {}
             /\ produced[k2 + 1] = << >>
             /\ (\E n \in 1..Len(reached) : reached[n].entry = k2) =>
                  k2 \in CachedEntries
             /\ EntryOver(k2) => cached >= 1

\* the first run is over: both files carry the date of day 2, the first
\* stored its ferry leg under that date, and the second, whose car leg from
\* the previous day could be routed, was counted as cached
C23_Witness ==
  /\ pc = "done"
  /\ run = 1
  /\ allEntries[1].date = 2
  /\ allEntries[2].date = 2
  /\ Len(produced[1]) = 1
  /\ allEntries[2].hasSegments
  /\ Routable(1, 0)
  /\ produced[2] = << >>
  /\ cached = 1
  /\ generated = 1
  /\ ~routeFiles[1].exists
  /\ routeFiles[2].content = RecordsOf(produced[1])

====
